---- MODULE Spec2Model ----
(***************************************************************************)
(* pokesage: the Protocol Flow Controller (WebsocketConnector) driving one *)
(* ShowdownProcessor per battle, as a state machine.                       *)
(*                                                                         *)
(* launch_connection is an async generator.  Its control state is pc:      *)
(*   "recv"      waiting for the next inbound line (async for msg in ws /  *)
(*               the for loop over the lines of the current block)         *)
(*   "suspended" stopped at a yield, waiting for the caller's asend        *)
(*   "done"      the generator has returned                                *)
(*   "crashed"   an exception has left the generator                       *)
(***************************************************************************)
EXTENDS Integers, Sequences, FiniteSets, TLC

\* ---------------------------------------------------------------- bounds
MaxConcurrent == 2      \* max_concurrent_battles ranges over 1..MaxConcurrent
MaxTotal      == 2      \* total_battles ranges over 1..MaxTotal
WhitelistLen  == 2      \* number of users in whitelist_users
MaxBattles    == 2      \* number of distinct battle ids the server may use
MaxStates     == 1      \* decisions the server asks for per battle
MaxActionLen  == 2      \* longest per-slot list the caller sends
MaxBlockLen   == 2      \* lines per inbound frame
MaxGames      == 1      \* entries of GAMES in an updatesearch message
MaxLines      == 3      \* inbound lines handled on one connection (Spec)
MaxEvents     == 4      \* the engine alone is fed at most MaxEvents lines

\* ------------------------------------------------------------- vocabulary
None == "None"

NO_ACTION  == "NO_ACTION"
TEAM_ORDER == "TEAM_ORDER"
MOVE       == "MOVE"
SWITCH     == "SWITCH"
GAME_END   == "GAME_END"
FULL_END   == "FULL_END"
ProgressState == {NO_ACTION, TEAM_ORDER, MOVE, SWITCH, GAME_END, FULL_END}

OBJECTIVE_COMPLETE == "OBJECTIVE_COMPLETE"
INVALID_CHOICE     == "INVALID_CHOICE"
SETUP_ERROR        == "SETUP_ERROR"
CONNECTION_ERROR   == "CONNECTION_ERROR"
PROCESSOR_ERROR    == "PROCESSOR_ERROR"
OTHER_ERROR        == "OTHER_ERROR"
ConnectionTerminationCode ==
    {OBJECTIVE_COMPLETE, INVALID_CHOICE, SETUP_ERROR, CONNECTION_ERROR, PROCESSOR_ERROR,
     OTHER_ERROR}

Gametypes  == {"singles", "doubles", "triples"}
Objectives == {"accept", "challenge", "ladder"}

\* the configured format and one other format the server may mention
target_format == "fmt"
Formats       == {target_format, "oth"}

whitelist_users == [i \in 1..WhitelistLen |-> i]
BattleIds       == 1..MaxBattles

\* ------------------------------------------------------ the caller's actions
\* AnyChoice and what else a caller can asend.  A per-slot list is a sequence
\* of entry kinds; "Junk" stands for any object that is not an AnyChoice.
SlotKinds == {"move", "switch", "item", "pass"}
RECURSIVE SeqsUpTo(_, _)
SeqsUpTo(S, n) ==
    IF n = 0 THEN {<<>>}
    ELSE LET shorter == SeqsUpTo(S, n - 1)
         IN  shorter \cup {Append(s, x) : s \in {t \in shorter : Len(t) = n - 1}, x \in S}

ListActions == {[kind |-> "list", items |-> s] : s \in SeqsUpTo(SlotKinds, MaxActionLen)}
PlainAction(k) == [kind |-> k, items |-> <<>>]
NoneChoice    == PlainAction("none")
QuitChoice    == PlainAction("quit")
ResignChoice  == PlainAction("resign")
DefaultChoice == PlainAction("default")
TeamChoice    == PlainAction("team")
JunkChoice    == PlainAction("junk")
NoAct         == PlainAction("-")        \* no action was processed
Actions == {NoneChoice, QuitChoice, ResignChoice, DefaultChoice, TeamChoice, JunkChoice}
              \cup ListActions

\* slot count of a gametype (the three disjuncts of the length assertion)
SlotCount(g) == CASE g = "singles" -> 1 [] g = "doubles" -> 2 [] g = "triples" -> 3

\* to_showdown of one list entry: ItemChoice raises NotImplementedError
EntryRaises(k) == k = "item"
EntryToShowdown(k) == CASE k = "move" -> "move" [] k = "switch" -> "switch" [] k = "pass" -> "pass"
                        [] OTHER -> "raise"

\* ----------------------------------------------------------------- state
VARIABLES
    cfg,                 \* constructor arguments: objective, gametype, limits
    pc,                  \* control state of launch_connection
    block,               \* the inbound frame being iterated
    surfaced,            \* the (signal, payload) pair of the current yield
    logged_in,
    last_search,
    pending_challenges,
    battle_processors,   \* battle id -> Battle record of its processor
    completed_battles,   \* battle id -> finalized Battle record
    pending_battle_amt,
    active_battle_amt,
    outstanding,         \* history: what the server was asked for / last reported
    sent,                \* frames transmitted (ws.send_str) by the last step
    lastLine,            \* the inbound line handled by the last step
    lastAction,          \* the action given to process_action by the last step
    raised,              \* the exception raised by the engine in the last step
    nlines               \* number of inbound lines handled so far

vars == <<cfg, pc, block, surfaced, logged_in, last_search, pending_challenges,
          battle_processors, completed_battles, pending_battle_amt,
          active_battle_amt, outstanding, sent, lastLine, lastAction, raised, nlines>>

ctl  == <<logged_in, last_search, pending_challenges, pending_battle_amt, active_battle_amt,
          outstanding>>

NoBlock  == [kind |-> None, bid |-> 0, left |-> 0]
RawBlock == [kind |-> "raw", bid |-> 0, left |-> 0]
NoSignal == [signal |-> None, bid |-> 0, code |-> None]
Yield(sig, bid, code) == [signal |-> sig, bid |-> bid, code |-> code]

\* ------------------------------------------------------- the battle record
\* Battle as the controller sees it: the snapshots (each reduced to the shape
\* of its battle_choice), the number of recorded actions, the gametype and
\* the victory flag.
NewBattle == [battle_states |-> <<>>, battle_actions |-> 0,
              gametype |-> None, player_victory |-> None]
Snapshot(choice) == [battle_choice |-> choice]

Last(s) == s[Len(s)]
\* a write that lands on the first snapshot instead of the last: what writing
\* through battle_states[-1] must exclude
SetFirst(s, x) == [s EXCEPT ![1] = x]
SetLast(s, x) == [s EXCEPT ![Len(s)] = x]

\* --------------------------------------------------- inbound battle lines
BattleLine(t, arg) == [t |-> t, arg |-> arg]
RequestTypes == {"WAIT", "TEAMPREVIEW", "FORCESWITCH", "ACTIVE"}
\* a kind for which process_bm has no branch
UnhandledLines == {BattleLine("unhandled", None)}
BattleLines ==
    {BattleLine(t, None) : t \in {"init", "teampreview", "turn", "win", "tie", "error", "unknown"}}
      \cup {BattleLine("gametype", g) : g \in Gametypes}
      \cup {BattleLine("request", r) : r \in RequestTypes}

\* Result of the engine on one line: the exception raised (None when it
\* returns), the progress state returned, and the record as the call leaves it.
Outcome(exc, sig, b) == [exc |-> exc, signal |-> sig, battle |-> b]

\* processbm_init: append the first snapshot
processbm_init(b) ==
    Outcome(None, NO_ACTION,
            [b EXCEPT !.battle_states = Append(@, Snapshot(None))])

\* processbm_gametype: the gametype is stored, then the slot tables of
\* battle_states[-1] are written (IndexError when there is no snapshot)
processbm_gametype(b, g) ==
    LET b1 == [b EXCEPT !.gametype = g]
    IN  IF b.battle_states = <<>> THEN Outcome("IndexError", None, b1)
        ELSE Outcome(None, NO_ACTION, b1)

\* processbm_request: battle_choice is reset, then rebuilt by request type;
\* FORCESWITCH and ACTIVE call slot_length(), which raises without a gametype
processbm_request(b, rtype) ==
    IF b.battle_states = <<>> THEN Outcome("IndexError", None, b)
    ELSE LET cleared == [b EXCEPT !.battle_states = SetLast(@, Snapshot(None))]
             rebuilt(c) == [b EXCEPT !.battle_states = SetLast(@, Snapshot(c))]
         IN  CASE rtype = "WAIT"        -> Outcome(None, NO_ACTION, cleared)
               [] rtype = "TEAMPREVIEW" -> Outcome(None, NO_ACTION, rebuilt("team"))
               [] rtype = "FORCESWITCH" ->
                    IF b.gametype = None THEN Outcome("RuntimeError", None, cleared)
                    ELSE Outcome(None, SWITCH, rebuilt("list"))
               [] rtype = "ACTIVE" ->
                    IF b.gametype = None THEN Outcome("RuntimeError", None, cleared)
                    ELSE Outcome(None, NO_ACTION, rebuilt("list"))

\* processbm_turn: singles returns at once; otherwise the pending
\* battle_choice is read from battle_states[-1] and iterated (a TeamChoice
\* returns, None cannot be enumerated)
processbm_turn(b) ==
    IF b.gametype = "singles" THEN Outcome(None, MOVE, b)
    ELSE IF b.battle_states = <<>> THEN Outcome("IndexError", None, b)
    ELSE LET choice == Last(b.battle_states).battle_choice
         IN  CASE choice = "team" -> Outcome(None, MOVE, b)
               [] choice = None   -> Outcome("TypeError", None, b)
               [] choice = "list" -> Outcome(None, MOVE, b)

\* processbm_win / processbm_tie
processbm_win(b) == Outcome(None, GAME_END, [b EXCEPT !.player_victory = "True"])
processbm_tie(b) == Outcome(None, GAME_END, [b EXCEPT !.player_victory = "False"])

\* processbm_error
processbm_error(b) == Outcome("RuntimeError", None, b)

\* an unknown line handled as if it opened the battle: what processbm_unknown
\* must not be
UnknownAsInit(b) == processbm_init(b)
\* processbm_unknown: a note in the processor's log, nothing on the record
processbm_unknown(b) == Outcome(None, NO_ACTION, b)

\* process_bm: dispatch on the kind of the line
process_bm(b, line) ==
    CASE line.t = "init"        -> processbm_init(b)
      [] line.t = "gametype"    -> processbm_gametype(b, line.arg)
      [] line.t = "teampreview" -> Outcome(None, TEAM_ORDER, b)
      [] line.t = "request"     -> processbm_request(b, line.arg)
      [] line.t = "turn"        -> processbm_turn(b)
      [] line.t = "win"         -> processbm_win(b)
      [] line.t = "tie"         -> processbm_tie(b)
      [] line.t = "error"       -> processbm_error(b)
      [] line.t = "unknown"     -> processbm_unknown(b)
      [] OTHER                  -> Outcome(None, NO_ACTION, b)

\* a recording that copies the snapshot without recording the action, and one
\* that copies it twice: what process_action must not be
RecordSnapshotOnly(b) == [b EXCEPT !.battle_states = Append(@, Last(@))]
RecordActionTwoCopies(b) ==
    [b EXCEPT !.battle_actions = @ + 1,
              !.battle_states  = Append(Append(@, Last(@)), Last(@))]

\* ShowdownProcessor.process_action: record the action, copy the last snapshot
RecordAction(b) ==
    [b EXCEPT !.battle_actions = @ + 1,
              !.battle_states  = Append(@, Last(@))]

\* --------------------------------------------------- inbound general lines
\* One record shape for every inbound line.  GAMES_None tells a null GAMES
\* from an empty one; arg carries NAMED of updateuser ("True"/"False") and,
\* for challstr, how the login request will end.
Line(scope, bid, t, arg, searching, gnone, games) ==
    [scope |-> scope, bid |-> bid, t |-> t, arg |-> arg,
     SEARCHING |-> searching, GAMES_None |-> gnone, GAMES |-> games]
NoLine == Line(None, 0, None, None, <<>>, TRUE, <<>>)
GeneralLine(t, arg) == Line("general", 0, t, arg, <<>>, TRUE, <<>>)
BattleScoped(bid, l) == Line("battle", bid, l.t, l.arg, <<>>, TRUE, <<>>)

SearchingValues == {<<>>} \cup {<<f>> : f \in Formats}
GamesValues     == SeqsUpTo(Formats, MaxGames)
UpdatesearchLines ==
    {Line("general", 0, "updatesearch", None, sr, TRUE, <<>>) : sr \in SearchingValues}
      \cup {Line("general", 0, "updatesearch", None, sr, FALSE, g) :
                sr \in SearchingValues, g \in GamesValues}
LoginOutcomes == {"ok", "raises", "noassertion"}
GeneralLines ==
    {GeneralLine("updateuser", n) : n \in {"True", "False"}}
      \cup UpdatesearchLines
      \cup {GeneralLine("challstr", o) : o \in LoginOutcomes}
      \cup {GeneralLine("other", None)}

\* ------------------------------------------------------- outbound frames
Frame(cmd, to, payload) == [cmd |-> cmd, to |-> to, payload |-> payload]
InSeq(x, s) == \E i \in 1..Len(s) : s[i] = x

\* ------------------------------------------------------ handle_updatesearch
\* Result: the termination code returned (None for no termination), the
\* frames sent, and the admission fields as the call leaves them.
SearchResult(term, out, pc_, amt) ==
    [conn_term |-> term, out |-> out, pending_challenges |-> pc_, pending_battle_amt |-> amt]

\* the objective-complete test of handle_updatesearch
ObjectiveReached(message, ncompleted, total) ==
    ncompleted >= total /\ message.GAMES_None

\* a concurrency test that still admits one more battle at the ceiling: what
\* the test must not be
AtCapacityAbove(pend, act, maxc) == pend + act > maxc

\* the concurrency test of handle_updatesearch
AtCapacity(pend, act, maxc) == pend + act >= maxc

\* the ladder test: not searching and not playing the target format
CanLadder(message) ==
    /\ ~InSeq(target_format, message.SEARCHING)
    /\ (message.GAMES_None \/ \A i \in 1..Len(message.GAMES) : message.GAMES[i] # target_format)

\* a scan of the whitelist that does not skip the users already challenged:
\* what the scan must not be
UnchallengedOrNot(pcs) == 1..Len(whitelist_users)

\* the whitelist users not yet challenged, in whitelist order
Unchallenged(pcs) == {i \in 1..Len(whitelist_users) : whitelist_users[i] \notin pcs}

\* a handler that searches below the ceiling whatever the objective: what the
\* branch on the objective must exclude
handle_updatesearch_any_objective(message, c, ncompleted, pcs, pend, act) ==
    IF ObjectiveReached(message, ncompleted, c.total_battles)
      THEN SearchResult(OBJECTIVE_COMPLETE, <<>>, pcs, pend)
    ELSE IF ncompleted >= c.total_battles THEN SearchResult(None, <<>>, pcs, pend)
    ELSE IF AtCapacity(pend, act, c.max_concurrent_battles) THEN SearchResult(None, <<>>, pcs, pend)
    ELSE SearchResult(None, <<Frame("search", 0, <<target_format>>)>>, pcs, pend + 1)

handle_updatesearch(message, c, ncompleted, pcs, pend, act) ==
    IF ObjectiveReached(message, ncompleted, c.total_battles)
      THEN SearchResult(OBJECTIVE_COMPLETE, <<>>, pcs, pend)
    ELSE IF ncompleted >= c.total_battles THEN SearchResult(None, <<>>, pcs, pend)
    ELSE IF AtCapacity(pend, act, c.max_concurrent_battles) THEN SearchResult(None, <<>>, pcs, pend)
    ELSE CASE c.objective = "accept" -> SearchResult(None, <<>>, pcs, pend)
           [] c.objective = "challenge" ->
                IF Unchallenged(pcs) = {} THEN SearchResult(None, <<>>, pcs, pend)
                ELSE LET i == CHOOSE j \in Unchallenged(pcs) : \A k \in Unchallenged(pcs) : j <= k
                         u == whitelist_users[i]
                     IN  SearchResult(None, <<Frame("challenge", u, <<target_format>>)>>,
                                      pcs \cup {u}, pend + 1)
           [] c.objective = "ladder" ->
                IF CanLadder(message)
                  THEN SearchResult(None, <<Frame("search", 0, <<target_format>>)>>, pcs, pend + 1)
                  ELSE SearchResult(None, <<>>, pcs, pend)

\* a login that sends the /trn frame whether or not the answer holds an
\* assertion: what send_login must not be
send_login_unchecked(outcome) ==
    IF outcome = "raises" THEN [exc |-> "Exception", out |-> <<>>]
    ELSE [exc |-> IF outcome = "ok" THEN None ELSE "Exception", out |-> <<Frame("trn", 0, <<>>)>>]

\* ------------------------------------------------------------- send_login
\* The login request raises, or answers without an assertion (RuntimeError),
\* or answers with a token, and only then is the /trn frame sent.
send_login(outcome) ==
    IF outcome = "ok" THEN [exc |-> None, out |-> <<Frame("trn", 0, <<>>)>>]
    ELSE [exc |-> "Exception", out |-> <<>>]

\* --------------------------------------------------- handle_general_message
\* Result: (progress state, termination code), the frames sent and the
\* controller fields as the call leaves them.
GeneralResult(sig, term, out, li, ls, pcs, pend, act) ==
    [signal |-> sig, conn_term |-> term, out |-> out, logged_in |-> li, last_search |-> ls,
     pending_challenges |-> pcs, pending_battle_amt |-> pend, active_battle_amt |-> act]

handle_general_message(msg, c, ncompleted, li, ls, pcs, pend, act) ==
    CASE msg.t = "updateuser" ->
           LET named == (msg.arg = "True")
           IN  IF named /\ ls # NoLine
                 THEN LET r == handle_updatesearch(ls, c, ncompleted, pcs, pend, act)
                      IN  GeneralResult(IF r.conn_term # None THEN FULL_END ELSE NO_ACTION,
                                        r.conn_term, r.out, named, ls,
                                        r.pending_challenges, r.pending_battle_amt, act)
                 ELSE GeneralResult(NO_ACTION, None, <<>>, named, ls, pcs, pend, act)
      [] msg.t = "updatesearch" ->
           LET pend1 == IF c.objective = "ladder" THEN Len(msg.SEARCHING) ELSE pend
               act1  == IF msg.GAMES_None THEN 0 ELSE Len(msg.GAMES)
           IN  IF li
                 THEN LET r == handle_updatesearch(msg, c, ncompleted, pcs, pend1, act1)
                      IN  GeneralResult(IF r.conn_term # None THEN FULL_END ELSE NO_ACTION,
                                        r.conn_term, r.out, li, ls,
                                        r.pending_challenges, r.pending_battle_amt, act1)
                 ELSE GeneralResult(NO_ACTION, None, <<>>, li, msg, pcs, pend1, act1)
      [] msg.t = "challstr" ->
           LET r == send_login(msg.arg)
           IN  IF r.exc # None
                 THEN GeneralResult(FULL_END, SETUP_ERROR, r.out, li, ls, pcs, pend, act)
                 ELSE GeneralResult(NO_ACTION, None, r.out, li, ls, pcs, pend, act)
      [] OTHER -> GeneralResult(NO_ACTION, None, <<>>, li, ls, pcs, pend, act)

\* ----------------------------------------------------------- submit_action
\* beartype's is_bearable(action, T).  For a list type it runs in constant
\* time: it tests that the object is a list and inspects one item, at an
\* index of its own choosing (idx); an empty list passes.
ListBearable(action, kinds, idx) ==
    action.kind = "list" /\ (action.items = <<>> \/ action.items[idx] \in kinds)

is_bearable(action, type, idx) ==
    CASE type = "AnyChoice" ->
           \/ action.kind \in {"none", "team", "resign", "default", "quit"}
           \/ ListBearable(action, SlotKinds, idx)
      [] type = "TeamOrderChoice" ->
           action.kind \in {"team", "resign", "default", "quit"}
      [] type = "MoveDecisionChoice" ->
           \/ action.kind \in {"resign", "default", "quit"}
           \/ ListBearable(action, SlotKinds, idx)
      [] type = "ForceSwitchChoice" ->
           \/ action.kind \in {"resign", "default", "quit"}
           \/ ListBearable(action, {"switch", "pass"}, idx)

\* the indices is_bearable may inspect
SampleIndices(action) == IF action.items = <<>> THEN {1} ELSE 1..Len(action.items)

\* a length test that lets a list shorter than the slot count through: what
\* the length assertion must not be
LengthAtMost(action, g) == Len(action.items) <= SlotCount(g)

\* the length assertion of the SWITCH and MOVE branches
LengthMatches(action, g) == Len(action.items) = SlotCount(g)

\* to_showdown of the whole action; a list joins its entries' payloads
ToShowdown(action) ==
    CASE action.kind = "team"    -> <<"team">>
      [] action.kind = "default" -> <<"default">>
      [] action.kind = "list"    -> [i \in 1..Len(action.items) |-> EntryToShowdown(action.items[i])]
      [] OTHER                   -> <<"forfeit">>
AnyEntryRaises(action) == \E i \in 1..Len(action.items) : EntryRaises(action.items[i])

\* Result of submit_action: the exception raised (None when it returns), the
\* termination it returns, and whether the action went on to be recorded by
\* the processor and transmitted.
Submitted(exc, term, accepted) == [exc |-> exc, conn_term |-> term, accepted |-> accepted]

\* the shape test of one branch: the type assertion, the battle id
\* assertion, then for a list the length assertion and the entries' payloads
ShapeBranch(action, type, bid, g, idx) ==
    IF ~is_bearable(action, type, idx) THEN Submitted("AssertionError", None, FALSE)
    ELSE IF bid = 0 THEN Submitted("AssertionError", None, FALSE)
    ELSE IF action.kind = "list"
      THEN IF ~LengthMatches(action, g) THEN Submitted("AssertionError", None, FALSE)
           ELSE IF AnyEntryRaises(action) THEN Submitted("NotImplementedError", None, FALSE)
           ELSE Submitted(None, None, TRUE)
      ELSE Submitted(None, None, TRUE)

submit_action(progress_state, action, bid, g, idx) ==
    IF action.kind = "quit" THEN Submitted(None, OTHER_ERROR, FALSE)
    ELSE IF action.kind = "resign"
      THEN IF bid = 0 THEN Submitted("AssertionError", None, FALSE)
           ELSE Submitted(None, None, FALSE)
    ELSE IF ~is_bearable(action, "AnyChoice", idx) THEN Submitted("AssertionError", None, FALSE)
    ELSE CASE progress_state = TEAM_ORDER -> ShapeBranch(action, "TeamOrderChoice", bid, g, idx)
           [] progress_state = SWITCH     -> ShapeBranch(action, "ForceSwitchChoice", bid, g, idx)
           [] progress_state = MOVE       -> ShapeBranch(action, "MoveDecisionChoice", bid, g, idx)
           [] OTHER -> IF action.kind = "none" THEN Submitted(None, None, FALSE)
                       ELSE Submitted("AssertionError", None, FALSE)

\* ---------------------------------------------------------- process_action
\* the except clauses of process_action
TerminationFor(exc) ==
    CASE exc \in {"AssertionError", "NotImplementedError"} -> INVALID_CHOICE
      [] OTHER -> OTHER_ERROR

Without(f, k) == [x \in DOMAIN f \ {k} |-> f[x]]
With(f, k, v) == [x \in DOMAIN f \cup {k} |-> IF x = k THEN v ELSE f[x]]

\* Result: the termination returned, the frames sent, and both battle maps.
Processed(term, out, bps, done) ==
    [conn_term |-> term, out |-> out, battle_processors |-> bps, completed_battles |-> done]

\* a GAME_END branch that finalizes every running battle, not only the one
\* that ended: what the pop of one battle id must exclude
FinishEveryBattle(bps, done, bid) ==
    Processed(None, <<>>, [x \in {} |-> bps[x]],
              [x \in DOMAIN done \cup DOMAIN bps |-> IF x \in DOMAIN bps THEN bps[x] ELSE done[x]])

\* GAME_END branch: the processor's record moves to completed_battles
FinishBattle(bps, done, bid) == Processed(None, <<>>, Without(bps, bid), With(done, bid, bps[bid]))

\* a process_action that records the action with the processor before
\* submit_action has validated it: what the order of submit_action excludes
RecordThenValidate(progress_state, action, bid, g, idx, bps, done) ==
    IF progress_state = FULL_END THEN Processed(OBJECTIVE_COMPLETE, <<>>, bps, done)
    ELSE IF progress_state = GAME_END THEN FinishBattle(bps, done, bid)
    ELSE LET r == submit_action(progress_state, action, bid, g, idx)
             recorded == IF bid \in DOMAIN bps THEN [bps EXCEPT ![bid] = RecordAction(@)] ELSE bps
         IN  IF r.exc # None THEN Processed(TerminationFor(r.exc), <<>>, recorded, done)
             ELSE IF r.accepted
               THEN Processed(None, <<Frame("choose", bid, ToShowdown(action))>>, recorded, done)
               ELSE Processed(r.conn_term, <<>>, bps, done)

process_action(progress_state, action, bid, g, idx, bps, done) ==
    IF progress_state = FULL_END THEN Processed(OBJECTIVE_COMPLETE, <<>>, bps, done)
    ELSE IF progress_state = GAME_END THEN FinishBattle(bps, done, bid)
    ELSE LET r == submit_action(progress_state, action, bid, g, idx)
         IN  IF r.exc # None THEN Processed(TerminationFor(r.exc), <<>>, bps, done)
             ELSE IF r.accepted
               THEN Processed(None, <<Frame("choose", bid, ToShowdown(action))>>,
                              [bps EXCEPT ![bid] = RecordAction(@)], done)
               ELSE Processed(r.conn_term, <<>>, bps, done)

\* ------------------------------------------------------------------- Init
Configs == [objective : Objectives, gametype : Gametypes,
            max_concurrent_battles : 1..MaxConcurrent, total_battles : 1..MaxTotal]

\* the state after __init__, for constructor arguments drawn from configs
InitWith(configs) ==
    /\ cfg \in configs
    /\ pc = "recv"
    /\ block = NoBlock
    /\ surfaced = NoSignal
    /\ logged_in = FALSE
    /\ last_search = NoLine
    /\ pending_challenges = {}
    /\ battle_processors = <<>>
    /\ completed_battles = <<>>
    /\ pending_battle_amt = 0
    /\ active_battle_amt = 0
    /\ outstanding = [search |-> FALSE, playing |-> FALSE]
    /\ sent = <<>>
    /\ lastLine = NoLine
    /\ lastAction = NoAct
    /\ raised = None
    /\ nlines = 0

\* Spec explores every gametype under the ladder objective with both limits 1;
\* AdmitSpec and LiveSpec explore the objectives and the limits.
FlowConfigs == {c \in Configs : /\ c.objective = "ladder"
                                /\ c.max_concurrent_battles = 1
                                /\ c.total_battles = 1}
Init == InitWith(FlowConfigs)

\* a generator that takes the next line although it is stopped at a yield:
\* what the yield must exclude
CanReceiveWhileSuspended == pc \in {"recv", "suspended"}

\* ------------------------------------------------------ launch_connection
\* the generator takes the next line only while it is not stopped at a yield
CanReceive == pc = "recv"

\* The next line is the next one of the frame being iterated, or the first
\* line of a new frame, which has up to MaxBlockLen lines.
Blocks(kind, bids) == {[kind |-> kind, bid |-> b, left |-> n] :
                          b \in bids, n \in 0..(MaxBlockLen - 1)}
NextBlock(kind, bid, b1) ==
    IF block.left > 0
      THEN block.kind = kind /\ block.bid = bid /\ b1 = [block EXCEPT !.left = @ - 1]
      ELSE b1.kind = kind /\ b1.bid = bid

\* what the server may still send to a battle: init once, when the room is
\* joined, and lines that ask for a decision up to MaxStates decisions
ServerMaySend(bid, l) ==
    LET n == IF bid \in DOMAIN battle_processors
               THEN Len(battle_processors[bid].battle_states) ELSE 0
    IN  /\ l.t = "init" => n = 0
        /\ (l.t \in {"teampreview", "turn"} \/ l = BattleLine("request", "FORCESWITCH"))
              => n <= MaxStates

\* nothing was sent, no action processed, no exception raised in this step
Quiet == sent' = <<>> /\ lastAction' = NoAct /\ raised' = None

\* yield (FULL_END, conn_term) after a break
SurfaceFullEnd(code) ==
    /\ surfaced' = Yield(FULL_END, 0, code)
    /\ pc' = "suspended"
    /\ block' = NoBlock

\* break with conn_term set.  Inside the loop over the lines of a block the
\* break leaves that loop and FULL_END is yielded; in the raw-frame branch
\* there is no inner loop, the break leaves the loop over the websocket and
\* the generator returns without another yield.
BreakWith(code, kind) ==
    IF kind = "raw"
      THEN pc' = "done" /\ surfaced' = NoSignal /\ block' = NoBlock
      ELSE SurfaceFullEnd(code)

\* a handler without the completed_battles test, which gives a finished
\* battle's line to a fresh engine: what the test must exclude
SkipCompletedReopens(bid, l, b1) ==
    /\ bid \in DOMAIN completed_battles
    /\ block' = b1
    /\ lastLine' = BattleScoped(bid, l)
    /\ Quiet
    /\ surfaced' = Yield(NO_ACTION, bid, None)
    /\ pc' = "suspended"
    /\ battle_processors' = With(battle_processors, bid, processbm_init(NewBattle).battle)
    /\ UNCHANGED <<cfg, ctl, completed_battles>>

\* handle_battle_message for a battle already in completed_battles: the line
\* is dropped (data is None: continue)
SkipCompleted(bid, l, b1) ==
    /\ bid \in DOMAIN completed_battles
    /\ block' = b1
    /\ lastLine' = BattleScoped(bid, l)
    /\ Quiet
    /\ surfaced' = NoSignal
    /\ UNCHANGED <<cfg, pc, ctl, battle_processors, completed_battles>>

\* one line of a battle block: handle_battle_message, then the yield
BattleStep(bid, l, b1) ==
    /\ bid \notin DOMAIN completed_battles
    /\ LET known == bid \in DOMAIN battle_processors
           bp    == IF known THEN battle_processors[bid] ELSE NewBattle
           o     == process_bm(bp, l)
       IN  /\ lastLine' = BattleScoped(bid, l)
           /\ sent' = <<>> /\ lastAction' = NoAct
           /\ IF o.exc # None
                THEN \* raised inside process_message: the exception leaves launch_connection
                     /\ raised' = o.exc
                     /\ pc' = "crashed"
                     /\ battle_processors' = IF known THEN [battle_processors EXCEPT ![bid] = o.battle]
                                             ELSE battle_processors
                     /\ surfaced' = NoSignal
                     /\ block' = NoBlock
                ELSE /\ battle_processors' = With(battle_processors, bid, o.battle)
                     /\ IF o.battle.battle_states = <<>>
                          THEN \* bp.battle.battle_states[-1] of the return statement
                               /\ raised' = "IndexError"
                               /\ pc' = "crashed"
                               /\ surfaced' = NoSignal
                               /\ block' = NoBlock
                          ELSE /\ raised' = None
                               /\ pc' = "suspended"
                               /\ surfaced' = Yield(o.signal, bid, None)
                               /\ block' = b1
    /\ UNCHANGED <<cfg, ctl, completed_battles>>

\* History of the ladder: search is TRUE from the transmission of a search
\* for the target format until the next updatesearch line; playing tells
\* whether the last updatesearch line listed a game of the target format.
Outstanding(msg, out) ==
    [search  |-> IF InSeq(Frame("search", 0, <<target_format>>), out) THEN TRUE
                 ELSE IF msg.t = "updatesearch" THEN FALSE
                 ELSE outstanding.search,
     playing |-> IF msg.t = "updatesearch"
                   THEN ~msg.GAMES_None /\ InSeq(target_format, msg.GAMES)
                   ELSE outstanding.playing]

\* the body shared by the "|" block branch and the raw-frame branch:
\* handle_general_message, then break to FULL_END or the yield of NO_ACTION
GeneralStep(msg, b1) ==
    LET r == handle_general_message(msg, cfg, Cardinality(DOMAIN completed_battles), logged_in,
                                    last_search, pending_challenges, pending_battle_amt,
                                    active_battle_amt)
    IN  /\ lastLine' = msg
        /\ sent' = r.out
        /\ lastAction' = NoAct /\ raised' = None
        /\ logged_in' = r.logged_in
        /\ last_search' = r.last_search
        /\ pending_challenges' = r.pending_challenges
        /\ pending_battle_amt' = r.pending_battle_amt
        /\ active_battle_amt' = r.active_battle_amt
        /\ outstanding' = Outstanding(msg, r.out)
        /\ IF r.conn_term # None
             THEN BreakWith(r.conn_term, b1.kind)
             ELSE /\ surfaced' = Yield(r.signal, 0, None)
                  /\ pc' = "suspended"
                  /\ block' = b1
        /\ UNCHANGED <<cfg, battle_processors, completed_battles>>

\* the caller's asend(action) at a yield other than FULL_END: process_action,
\* then either the loop goes on or it breaks and FULL_END is yielded
ResumeWith(action, idx) ==
    /\ pc = "suspended"
    /\ surfaced.signal # FULL_END
    /\ LET r == process_action(surfaced.signal, action, surfaced.bid, cfg.gametype, idx,
                               battle_processors, completed_battles)
       IN  /\ lastAction' = action
           /\ lastLine' = NoLine
           /\ raised' = None
           /\ sent' = r.out
           /\ battle_processors' = r.battle_processors
           /\ completed_battles' = r.completed_battles
           /\ IF r.conn_term # None
                THEN BreakWith(r.conn_term, block.kind)
                ELSE /\ pc' = "recv"
                     /\ surfaced' = NoSignal
                     /\ block' = block
    /\ UNCHANGED <<cfg, ctl, nlines>>

\* -------------------------------------------------- Spec: any environment
\* Every inbound line, every frame shape and every caller action, for up to
\* MaxLines inbound lines.
Counted == nlines < MaxLines /\ nlines' = nlines + 1

SkipCompletedLine ==
    \E bid \in BattleIds, l \in BattleLines, b1 \in Blocks("battle", BattleIds) :
        CanReceive /\ Counted /\ NextBlock("battle", bid, b1) /\ SkipCompleted(bid, l, b1)

HandleBattleLine ==
    \E bid \in BattleIds, l \in BattleLines, b1 \in Blocks("battle", BattleIds) :
        /\ CanReceive /\ Counted
        /\ NextBlock("battle", bid, b1)
        /\ ServerMaySend(bid, l)
        /\ BattleStep(bid, l, b1)

\* one line of a "|" block
HandleGeneralLine ==
    \E msg \in GeneralLines, b1 \in Blocks("general", {0}) :
        CanReceive /\ Counted /\ NextBlock("general", 0, b1) /\ GeneralStep(msg, b1)

\* a frame that starts with neither ">" nor "|": one message, "||" + frame
HandleRawFrame ==
    /\ CanReceive /\ Counted
    /\ block.left = 0
    /\ GeneralStep(Line("general", 0, "raw", None, <<>>, TRUE, <<>>), RawBlock)

\* a frame that starts with ">" but names no battle: continue
SkipFrame ==
    /\ CanReceive /\ Counted
    /\ block.left = 0
    /\ lastLine' = Line("skip", 0, None, None, <<>>, TRUE, <<>>)
    /\ Quiet
    /\ surfaced' = NoSignal
    /\ block' = NoBlock
    /\ UNCHANGED <<cfg, pc, ctl, battle_processors, completed_battles>>

\* a websocket message that is not TEXT
TransportError ==
    /\ CanReceive
    /\ block.left = 0
    /\ SurfaceFullEnd(CONNECTION_ERROR)
    /\ lastLine' = NoLine
    /\ Quiet
    /\ UNCHANGED <<cfg, ctl, battle_processors, completed_battles, nlines>>

\* the websocket iteration ends: the generator returns
ConnectionClosed ==
    /\ CanReceive
    /\ block.left = 0
    /\ pc' = "done"
    /\ surfaced' = NoSignal
    /\ block' = NoBlock
    /\ lastLine' = NoLine
    /\ Quiet
    /\ UNCHANGED <<cfg, ctl, battle_processors, completed_battles, nlines>>

Resume ==
    \E action \in Actions : \E idx \in SampleIndices(action) : ResumeWith(action, idx)

\* a generator without the break after the yield of FULL_END, whose loop
\* takes the next frame: what the break must exclude
ResumeAfterFullEndNoBreak ==
    /\ pc = "suspended"
    /\ surfaced.signal = FULL_END
    /\ pc' = "recv"
    /\ lastLine' = NoLine
    /\ Quiet
    /\ UNCHANGED <<cfg, block, surfaced, ctl, battle_processors, completed_battles, nlines>>

\* asend after FULL_END was yielded: break, and the generator returns
ResumeAfterFullEnd ==
    /\ pc = "suspended"
    /\ surfaced.signal = FULL_END
    /\ pc' = "done"
    /\ lastLine' = NoLine
    /\ Quiet
    /\ UNCHANGED <<cfg, block, surfaced, ctl, battle_processors, completed_battles, nlines>>

Next ==
    \/ SkipCompletedLine
    \/ HandleBattleLine
    \/ HandleGeneralLine
    \/ HandleRawFrame
    \/ SkipFrame
    \/ TransportError
    \/ ConnectionClosed
    \/ Resume
    \/ ResumeAfterFullEnd

Spec == Init /\ [][Next]_vars

\* --------------------------------------- AdmitSpec: admission and completion
\* Any sequence of general lines and of battles that start (init) and end
\* (win), each line in a frame of its own; the caller resumes with None, as
\* AbstractSage.play does at NO_ACTION and GAME_END.  Singles only; every
\* objective and every limit.
AdmitConfigs == {c \in Configs : c.gametype = "singles"}
AdmitInit    == InitWith(AdmitConfigs)

OneLine(kind, bid) == [kind |-> kind, bid |-> bid, left |-> 0]

AdmitGeneralLine ==
    \E msg \in GeneralLines :
        /\ CanReceive /\ block.left = 0
        /\ GeneralStep(msg, OneLine("general", 0))
        /\ UNCHANGED nlines

AdmitBattleStart ==
    \E bid \in BattleIds :
        /\ CanReceive /\ block.left = 0
        /\ bid \notin DOMAIN battle_processors
        /\ BattleStep(bid, BattleLine("init", None), OneLine("battle", bid))
        /\ UNCHANGED nlines

AdmitBattleEnd ==
    \E bid \in BattleIds :
        /\ CanReceive /\ block.left = 0
        /\ bid \in DOMAIN battle_processors
        /\ BattleStep(bid, BattleLine("win", None), OneLine("battle", bid))
        /\ UNCHANGED nlines

AdmitResume == ResumeWith(NoneChoice, 1)

AdmitNext ==
    \/ AdmitGeneralLine
    \/ AdmitBattleStart
    \/ AdmitBattleEnd
    \/ AdmitResume
    \/ ResumeAfterFullEnd

AdmitSpec == AdmitInit /\ [][AdmitNext]_vars

\* ------------------------------- LiveSpec: a server that answers challenges
\* The challenge objective with total_battles within the whitelist.  The
\* server names the user, reports in every search update the games that are
\* running, starts a battle for a challenge that was issued and ends every
\* battle it started; the caller resumes with None.  Battle u is the battle
\* against whitelist user u.
LiveConfigs == {c \in Configs : /\ c.objective = "challenge"
                                /\ c.gametype = "singles"
                                /\ c.total_battles <= Len(whitelist_users)}
LiveInit    == InitWith(LiveConfigs)

Running == DOMAIN battle_processors
SearchUpdateNow ==
    IF Running = {}
      THEN Line("general", 0, "updatesearch", None, <<>>, TRUE, <<>>)
      ELSE Line("general", 0, "updatesearch", None, <<>>, FALSE,
                [i \in 1..Cardinality(Running) |-> target_format])

LiveLogin ==
    /\ CanReceive /\ ~logged_in
    /\ GeneralStep(GeneralLine("updateuser", "True"), OneLine("general", 0))
    /\ UNCHANGED nlines

LiveSearchUpdate ==
    /\ CanReceive
    /\ GeneralStep(SearchUpdateNow, OneLine("general", 0))
    /\ UNCHANGED nlines

LiveBattleStart ==
    \E u \in pending_challenges :
        /\ CanReceive
        /\ u \notin DOMAIN battle_processors \cup DOMAIN completed_battles
        /\ BattleStep(u, BattleLine("init", None), OneLine("battle", u))
        /\ UNCHANGED nlines

LiveBattleEnd ==
    \E u \in DOMAIN battle_processors :
        /\ CanReceive
        /\ BattleStep(u, BattleLine("win", None), OneLine("battle", u))
        /\ UNCHANGED nlines

LiveResume == ResumeWith(NoneChoice, 1)

LiveNext ==
    \/ LiveLogin
    \/ LiveSearchUpdate
    \/ LiveBattleStart
    \/ LiveBattleEnd
    \/ LiveResume
    \/ ResumeAfterFullEnd

\* The caller's loop always resumes the generator; the server logs the user
\* in, keeps sending search updates, and starts and ends every battle.
LiveFairness ==
    /\ WF_vars(LiveResume)
    /\ WF_vars(ResumeAfterFullEnd)
    /\ SF_vars(LiveLogin)
    /\ SF_vars(LiveSearchUpdate)
    /\ SF_vars(LiveBattleStart)
    /\ SF_vars(LiveBattleEnd)

LiveSpec == LiveInit /\ [][LiveNext]_vars /\ LiveFairness

\* ------------------------------------------ RecordSpec: one battle's record
\* Every line of one battle, each in a frame of its own, and every caller
\* action, for each gametype the connector can be configured with.
RecordConfigs == {c \in Configs : /\ c.objective = "accept"
                                  /\ c.max_concurrent_battles = 1
                                  /\ c.total_battles = 1}
RecordInit    == InitWith(RecordConfigs)

RecordLine ==
    \E l \in BattleLines \cup UnhandledLines :
        /\ CanReceive /\ block.left = 0
        /\ ServerMaySend(1, l)
        /\ BattleStep(1, l, OneLine("battle", 1))
        /\ UNCHANGED nlines

RecordLineAfterEnd ==
    \E l \in BattleLines :
        /\ CanReceive /\ block.left = 0
        /\ SkipCompleted(1, l, OneLine("battle", 1))
        /\ UNCHANGED nlines

RecordResume ==
    \E action \in Actions : \E idx \in SampleIndices(action) : ResumeWith(action, idx)

RecordNext ==
    \/ RecordLine
    \/ RecordLineAfterEnd
    \/ RecordResume
    \/ ResumeAfterFullEnd

RecordSpec == RecordInit /\ [][RecordNext]_vars

\* ------------------------------------- rosters and slot tables (the engine)
\* The part of battle_states[-1] that the switching events work on: per side
\* a roster (identity key -> BattlePokemon) and a slot table (slot -> identity
\* key, or empty), together with the ids and the gametype of the Battle that
\* owns the snapshot.  Identity keys are the f-strings of the source, kept as
\* tuples of their parts.
Players     == {"p1", "p2"}
Species     == {"charizard", "charizardmegax", "zoroark"}
Nicknames   == {"Charizard", "Zoroark"}
SlotLetters == <<"a", "b", "c">>
Positions   == 0..2
EmptySlot   == <<>>        \* None as the entry of a slot table
NoSlot      == 0           \* None as the slot of a BattlePokemon
STATUS_FNT  == "fnt"

\* poketypes.dex.clean_forme: the base species of a forme
clean_forme(species) == IF species = "charizardmegax" THEN "charizard" ELSE species

\* "abc".find(slot) + 1
SlotIndex(letter) == CHOOSE i \in 1..Len(SlotLetters) : SlotLetters[i] = letter

\* BattlePokemon as the handlers construct it (has_item, slot, active and
\* status at their defaults; has_item is None, "True" or "False")
BattlePokemon(player_id, species, nickname, level, gender) ==
    [player_id |-> player_id, species |-> species, base_species |-> clean_forme(species),
     nickname |-> nickname, level |-> level, gender |-> gender,
     has_item |-> None, slot |-> NoSlot, active |-> FALSE, status |-> None]

\* BattlePokemon.to_base_id: player, base species, LEVEL, gender, None
to_base_id(poke) == <<poke.player_id, poke.base_species, poke.level, poke.gender, None>>

\* the two keys the switching handlers compute from a message: player,
\* clean_forme(species), gender, identity (no level)
full_ident(bm) == <<bm.PLAYER, clean_forme(bm.SPECIES), bm.GENDER, bm.IDENTITY>>
base_ident(bm) == <<bm.PLAYER, clean_forme(bm.SPECIES), bm.GENDER, None>>

\* the messages: a pokemon with its details, and a swap
PokemonMessage(player, letter, species, identity) ==
    [PLAYER |-> player, SLOT |-> letter, SPECIES |-> species, GENDER |-> "M",
     LEVEL |-> "50", IDENTITY |-> identity, HAS_ITEM |-> "True", POSITION |-> 0]
PokemonMessages ==
    {PokemonMessage(p, SlotLetters[i], s, n) :
        p \in Players, i \in 1..Len(SlotLetters), s \in Species, n \in Nicknames}
SwapMessages ==
    {[PokemonMessage(p, SlotLetters[i], "charizard", "Charizard") EXCEPT !.POSITION = q] :
        p \in Players, i \in 1..Len(SlotLetters), q \in Positions}

\* the side data of a request: one or two team members
RequestPokemon(species, identity, active) ==
    [SPECIES |-> species, GENDER |-> "M", LEVEL |-> "50", IDENTITY |-> identity,
     ACTIVE |-> active, STATUS |-> None, ITEM |-> None]
RequestSides ==
    {<<RequestPokemon("charizard", "Charizard", TRUE)>>,
     <<RequestPokemon("charizard", "Charizard", TRUE),
       RequestPokemon("zoroark", "Zoroark", FALSE)>>}
RequestMessages == [PLAYER : Players, POKEMON : RequestSides]

\* the snapshot after processbm_init and the two player lines
NewField == [player_id |-> "p1", opponent_id |-> "p2", gametype |-> None,
             player_team |-> <<>>, opponent_team |-> <<>>,
             player_slots |-> <<>>, opponent_slots |-> <<>>]

\* Result of one handler: the exception raised (None when it returns) and the
\* snapshot as the call leaves it.
Handled(exc, st) == [exc |-> exc, state |-> st]

Team(st, side)  == IF side = "player" THEN st.player_team ELSE st.opponent_team
Slots(st, side) == IF side = "player" THEN st.player_slots ELSE st.opponent_slots
SetTeam(st, side, team) ==
    IF side = "player" THEN [st EXCEPT !.player_team = team]
    ELSE [st EXCEPT !.opponent_team = team]
SetSlots(st, side, slots) ==
    IF side = "player" THEN [st EXCEPT !.player_slots = slots]
    ELSE [st EXCEPT !.opponent_slots = slots]
\* the side chosen by "bm.POKEMON.PLAYER == self.battle.player_id"
SideOf(st, bm) == IF bm.PLAYER = st.player_id THEN "player" ELSE "opponent"

\* processbm_gametype on the snapshot: both slot tables are rebuilt empty
gametype_slots(st, g) ==
    LET table == [i \in 1..SlotCount(g) |-> EmptySlot]
    IN  Handled(None, [st EXCEPT !.gametype = g, !.player_slots = table,
                                 !.opponent_slots = table])

\* processbm_poke: an opponent's team-preview entry goes in under its base id
processbm_poke(st, bm) ==
    IF bm.PLAYER = st.player_id THEN Handled(None, st)
    ELSE LET poke == [BattlePokemon(bm.PLAYER, bm.SPECIES, None, bm.LEVEL, bm.GENDER)
                         EXCEPT !.has_item = bm.HAS_ITEM]
         IN  Handled(None, [st EXCEPT !.opponent_team = With(@, to_base_id(poke), poke)])

\* processbm_request, the loop over the side data: a member is created under
\* its base id when the roster has exactly e entries, and is otherwise looked
\* up under the key built from the message
RECURSIVE request_side(_, _, _, _)
request_side(team, player, pokemon, e) ==
    IF e = Len(pokemon) THEN [exc |-> None, team |-> team]
    ELSE LET bm_poke == pokemon[e + 1]
         IN  IF Cardinality(DOMAIN team) = e
             THEN LET poke == [BattlePokemon(player, bm_poke.SPECIES, bm_poke.IDENTITY,
                                             bm_poke.LEVEL, bm_poke.GENDER)
                                  EXCEPT !.status = bm_poke.STATUS, !.active = bm_poke.ACTIVE,
                                         !.has_item = IF bm_poke.ITEM = None THEN "False"
                                                      ELSE "True"]
                  IN  request_side(With(team, to_base_id(poke), poke), player, pokemon, e + 1)
             ELSE LET poke_id == <<player, clean_forme(bm_poke.SPECIES), bm_poke.GENDER,
                                   bm_poke.IDENTITY>>
                  IN  IF poke_id \notin DOMAIN team THEN [exc |-> "KeyError", team |-> team]
                      ELSE request_side([team EXCEPT ![poke_id].status = bm_poke.STATUS,
                                                     ![poke_id].active = bm_poke.ACTIVE,
                                                     ![poke_id].has_item =
                                                         IF bm_poke.ITEM = None THEN "False"
                                                         ELSE "True"],
                                        player, pokemon, e + 1)

\* processbm_request up to the end of that loop (the choice enumeration that
\* follows writes neither a roster key nor a slot table)
request_team(st, bm) ==
    IF bm.PLAYER # st.player_id THEN Handled("AssertionError", st)
    ELSE LET r == request_side(st.player_team, bm.PLAYER, bm.POKEMON, 0)
         IN  Handled(r.exc, [st EXCEPT !.player_team = r.team])

\* The slot switch every branch of processbm_switch ends with: the occupant
\* of the slot is marked out, ident is marked in and written to the table.
SwitchInto(st, side, slot, ident) ==
    LET team  == Team(st, side)
        slots == Slots(st, side)
    IN  IF slot \notin DOMAIN slots THEN Handled("KeyError", st)
        ELSE LET old == slots[slot]
             IN  IF old # EmptySlot /\ old \notin DOMAIN team THEN Handled("KeyError", st)
                 ELSE LET t1 == IF old = EmptySlot THEN team
                                ELSE [team EXCEPT ![old].slot = NoSlot, ![old].active = FALSE]
                          t2 == [t1 EXCEPT ![ident].slot = slot, ![ident].active = TRUE]
                      IN  Handled(None, SetSlots(SetTeam(st, side, t2), side,
                                                 [slots EXCEPT ![slot] = ident]))

\* processbm_switch: the side is found by looking the identity up in the
\* rosters; an unseen opponent identity is promoted from its base-id entry
\* or created
processbm_switch(st, bm) ==
    LET full == full_ident(bm)
        base == base_ident(bm)
        slot == SlotIndex(bm.SLOT)
    IN  IF full \in DOMAIN st.player_team THEN SwitchInto(st, "player", slot, full)
        ELSE IF full \in DOMAIN st.opponent_team THEN SwitchInto(st, "opponent", slot, full)
        ELSE IF base \in DOMAIN st.opponent_team
        THEN LET poke == [st.opponent_team[base] EXCEPT !.species = bm.SPECIES,
                                                        !.nickname = bm.IDENTITY]
                 st1  == [st EXCEPT !.opponent_team = With(Without(@, base), full, poke)]
             IN  SwitchInto(st1, "opponent", slot, full)
        ELSE IF bm.PLAYER # st.opponent_id THEN Handled("AssertionError", st)
        ELSE LET poke == BattlePokemon(bm.PLAYER, bm.SPECIES, bm.IDENTITY, bm.LEVEL, bm.GENDER)
                 st1  == [st EXCEPT !.opponent_team = With(@, full, poke)]
             IN  SwitchInto(st1, "opponent", slot, full)

\* processbm_drag: its body is that of processbm_switch, statement for statement
processbm_drag(st, bm) == processbm_switch(st, bm)

\* processbm_detailschange: the occupant of the slot is popped from the
\* roster and put back under the key of the new details
processbm_detailschange(st, bm) ==
    LET full  == full_ident(bm)
        slot  == SlotIndex(bm.SLOT)
        side  == SideOf(st, bm)
        team  == Team(st, side)
        slots == Slots(st, side)
    IN  IF slot \notin DOMAIN slots THEN Handled("KeyError", st)
        ELSE IF slots[slot] = EmptySlot THEN Handled("AssertionError", st)
        ELSE IF slots[slot] \notin DOMAIN team THEN Handled("KeyError", st)
        ELSE LET old_poke_id == slots[slot]
                 poke == [team[old_poke_id] EXCEPT !.species = bm.SPECIES,
                                                   !.base_species = clean_forme(bm.SPECIES)]
             IN  Handled(None, SetSlots(SetTeam(st, side, With(Without(team, old_poke_id), full, poke)),
                                        side, [slots EXCEPT ![slot] = full]))

\* processbm_replace: the slot is rewritten to the revealed identity; only the
\* opponent branch then looks the identity up in the roster
processbm_replace(st, bm) ==
    LET full  == full_ident(bm)
        base  == base_ident(bm)
        slot  == SlotIndex(bm.SLOT)
        side  == SideOf(st, bm)
        team  == Team(st, side)
        slots == Slots(st, side)
    IN  IF slot \notin DOMAIN slots THEN Handled("KeyError", st)
        ELSE IF slots[slot] = EmptySlot THEN Handled("AssertionError", st)
        ELSE LET old_poke_id    == slots[slot]
                 old_poke_match == {k \in DOMAIN slots : k # slot /\ slots[k] = old_poke_id}
             IN  IF Cardinality(old_poke_match) > 1 THEN Handled("RuntimeError", st)
                 ELSE IF old_poke_id \notin DOMAIN team THEN Handled("KeyError", st)
                 ELSE LET t1  == [team EXCEPT ![old_poke_id].slot =
                                     IF old_poke_match = {} THEN NoSlot
                                     ELSE CHOOSE k \in old_poke_match : TRUE]
                          st1 == SetSlots(SetTeam(st, side, t1), side,
                                          [slots EXCEPT ![slot] = full])
                      IN  IF side = "player" \/ full \in DOMAIN t1 THEN Handled(None, st1)
                          ELSE IF base \notin DOMAIN t1 THEN Handled("AssertionError", st1)
                          ELSE LET poke == [t1[base] EXCEPT
                                               !.base_species = clean_forme(bm.SPECIES),
                                               !.species = bm.SPECIES,
                                               !.nickname = bm.IDENTITY]
                               IN  Handled(None, SetTeam(st1, side,
                                                         With(Without(t1, base), full, poke)))

\* processbm_swap: the occupants of two slots of one side change places
processbm_swap(st, bm) ==
    LET original_slot == SlotIndex(bm.SLOT)
        new_slot      == bm.POSITION + 1
        side  == SideOf(st, bm)
        team  == Team(st, side)
        slots == Slots(st, side)
    IN  IF original_slot \notin DOMAIN slots THEN Handled("KeyError", st)
        ELSE IF slots[original_slot] = EmptySlot THEN Handled("AssertionError", st)
        ELSE IF new_slot \notin DOMAIN slots THEN Handled("KeyError", st)
        ELSE IF slots[new_slot] = EmptySlot THEN Handled("AssertionError", st)
        ELSE LET orig_id == slots[original_slot]
                 new_id  == slots[new_slot]
             IN  IF orig_id \notin DOMAIN team THEN Handled("KeyError", st)
                 ELSE LET t1 == [team EXCEPT ![orig_id].slot = new_slot]
                      IN  IF new_id \notin DOMAIN t1 THEN Handled("KeyError", SetTeam(st, side, t1))
                          ELSE Handled(None,
                                 SetSlots(SetTeam(st, side, [t1 EXCEPT ![new_id].slot = original_slot]),
                                          side, [slots EXCEPT ![original_slot] = new_id,
                                                              ![new_slot] = orig_id]))

\* a faint handler that marks the occupant and leaves the slot table alone
FaintKeepsEntry(st, bm) ==
    LET slot  == SlotIndex(bm.SLOT)
        side  == SideOf(st, bm)
        team  == Team(st, side)
        slots == Slots(st, side)
    IN  IF slot \notin DOMAIN slots THEN Handled("KeyError", st)
        ELSE IF slots[slot] = EmptySlot THEN Handled("AssertionError", st)
        ELSE IF slots[slot] \notin DOMAIN team THEN Handled("KeyError", st)
        ELSE Handled(None, SetTeam(st, side, [team EXCEPT ![slots[slot]].status = STATUS_FNT,
                                                          ![slots[slot]].active = FALSE,
                                                          ![slots[slot]].slot = NoSlot]))

\* processbm_faint: the occupant is marked fainted and the slot is emptied
processbm_faint(st, bm) ==
    LET slot  == SlotIndex(bm.SLOT)
        side  == SideOf(st, bm)
        team  == Team(st, side)
        slots == Slots(st, side)
    IN  IF slot \notin DOMAIN slots THEN Handled("KeyError", st)
        ELSE IF slots[slot] = EmptySlot THEN Handled("AssertionError", st)
        ELSE IF slots[slot] \notin DOMAIN team THEN Handled("KeyError", st)
        ELSE LET poke_id == slots[slot]
             IN  Handled(None,
                    SetSlots(SetTeam(st, side, [team EXCEPT ![poke_id].status = STATUS_FNT,
                                                            ![poke_id].active = FALSE,
                                                            ![poke_id].slot = NoSlot]),
                             side, [slots EXCEPT ![slot] = EmptySlot]))

\* ----------------------------------------- SlotSpec: one engine, line by line
\* One ShowdownProcessor fed the roster and slot events of one battle, in any
\* order, until a handler raises or MaxEvents lines are in; battle_processors[1] is its snapshot and
\* lastLine the message it was given last, with its kind.
SlotInit ==
    /\ cfg \in {c \in FlowConfigs : c.gametype = "singles"}
    /\ pc = "recv"
    /\ block = NoBlock
    /\ surfaced = NoSignal
    /\ logged_in = FALSE
    /\ last_search = NoLine
    /\ pending_challenges = {}
    /\ battle_processors = <<NewField>>
    /\ completed_battles = <<>>
    /\ pending_battle_amt = 0
    /\ active_battle_amt = 0
    /\ outstanding = [search |-> FALSE, playing |-> FALSE]
    /\ sent = <<>>
    /\ lastLine = NoLine
    /\ lastAction = NoAct
    /\ raised = None
    /\ nlines = 0

Field == battle_processors[1]

FieldStep(t, bm, r) ==
    /\ raised = None
    /\ nlines < MaxEvents /\ nlines' = nlines + 1
    /\ battle_processors' = <<r.state>>
    /\ raised' = r.exc
    /\ lastLine' = [t |-> t, bm |-> bm]
    /\ UNCHANGED <<cfg, pc, block, surfaced, ctl, completed_battles, sent, lastAction>>

SlotGametype ==
    \E g \in Gametypes :
        /\ Field.gametype = None
        /\ FieldStep("gametype", g, gametype_slots(Field, g))
SlotPoke ==
    \E bm \in PokemonMessages : FieldStep("poke", bm, processbm_poke(Field, bm))
SlotRequest ==
    \E bm \in RequestMessages : FieldStep("request", bm, request_team(Field, bm))
SlotSwitch ==
    \E bm \in PokemonMessages : FieldStep("switch", bm, processbm_switch(Field, bm))
SlotDrag ==
    \E bm \in PokemonMessages : FieldStep("drag", bm, processbm_drag(Field, bm))
SlotDetailschange ==
    \E bm \in PokemonMessages : FieldStep("detailschange", bm, processbm_detailschange(Field, bm))
SlotReplace ==
    \E bm \in PokemonMessages : FieldStep("replace", bm, processbm_replace(Field, bm))
SlotSwap ==
    \E bm \in SwapMessages : FieldStep("swap", bm, processbm_swap(Field, bm))
SlotFaint ==
    \E bm \in PokemonMessages : FieldStep("faint", bm, processbm_faint(Field, bm))

SlotNext ==
    \/ SlotGametype
    \/ SlotPoke
    \/ SlotRequest
    \/ SlotSwitch
    \/ SlotDrag
    \/ SlotDetailschange
    \/ SlotReplace
    \/ SlotSwap
    \/ SlotFaint

SlotSpec == SlotInit /\ [][SlotNext]_vars

\* ------------------------------------ ReplaySpec: two copies, the same lines
\* Two ShowdownProcessors, each owning its own copy of one battle record, are
\* fed the same lines one after the other; battle_processors[i] is copy i: its
\* record, its snapshot's rosters and slot tables, and what process_bm
\* returned or raised for the last line.
Replica(b, st, signal, exc) == [battle |-> b, field |-> st, signal |-> signal, exc |-> exc]

\* process_bm on one roster or slot event: the handler, then NO_ACTION
process_field(c, t, bm) ==
    LET h == CASE t = "poke"          -> processbm_poke(c.field, bm)
               [] t = "switch"        -> processbm_switch(c.field, bm)
               [] t = "drag"          -> processbm_drag(c.field, bm)
               [] t = "detailschange" -> processbm_detailschange(c.field, bm)
               [] t = "replace"       -> processbm_replace(c.field, bm)
               [] t = "swap"          -> processbm_swap(c.field, bm)
               [] t = "faint"         -> processbm_faint(c.field, bm)
    IN  Replica(c.battle, h.state, IF h.exc = None THEN NO_ACTION ELSE None, h.exc)

\* process_bm on one line of the record: gametype also rebuilds the slot
\* tables of the snapshot it has just been checked to have
process_record(c, line) ==
    LET o == process_bm(c.battle, line)
        st == IF line.t = "gametype" /\ o.exc = None
              THEN gametype_slots(c.field, line.arg).state ELSE c.field
    IN  Replica(o.battle, st, o.signal, o.exc)

\* the second processor's record is a deepcopy: nothing the first processor
\* wrote is visible in it
SharedRosters(written, own) ==
    [own EXCEPT !.field.player_team = written.field.player_team,
                !.field.opponent_team = written.field.opponent_team]
IndependentCopy(written, own) == own

ReplayMessages == {bm \in PokemonMessages : bm.SLOT # "c" /\ bm.SPECIES # "charizardmegax"}
ReplaySwaps    == {bm \in SwapMessages : bm.SLOT # "c" /\ bm.POSITION < 2}
ReplayKinds    == {"poke", "switch", "drag", "detailschange", "replace", "faint"}

ReplayInit ==
    /\ cfg \in {c \in FlowConfigs : c.gametype = "singles"}
    /\ pc = "recv"
    /\ block = NoBlock
    /\ surfaced = NoSignal
    /\ logged_in = FALSE
    /\ last_search = NoLine
    /\ pending_challenges = {}
    /\ battle_processors = <<Replica(NewBattle, NewField, None, None),
                             Replica(NewBattle, NewField, None, None)>>
    /\ completed_battles = <<>>
    /\ pending_battle_amt = 0
    /\ active_battle_amt = 0
    /\ outstanding = [search |-> FALSE, playing |-> FALSE]
    /\ sent = <<>>
    /\ lastLine = NoLine
    /\ lastAction = NoAct
    /\ raised = None
    /\ nlines = 0

ReplayStep(t, bm, first, second) ==
    /\ raised = None
    /\ nlines < MaxEvents /\ nlines' = nlines + 1
    /\ battle_processors' = <<first, second>>
    /\ raised' = first.exc
    /\ lastLine' = [t |-> t, bm |-> bm]
    /\ UNCHANGED <<cfg, pc, block, surfaced, ctl, completed_battles, sent, lastAction>>

ReplayRecordLine ==
    \E line \in BattleLines :
        LET first == process_record(battle_processors[1], line)
        IN  ReplayStep(line.t, line.arg, first,
                       process_record(IndependentCopy(first, battle_processors[2]), line))

ReplayFieldEvent ==
    \E t \in ReplayKinds, bm \in ReplayMessages :
        LET first == process_field(battle_processors[1], t, bm)
        IN  ReplayStep(t, bm, first,
                       process_field(IndependentCopy(first, battle_processors[2]), t, bm))

ReplaySwap ==
    \E bm \in ReplaySwaps :
        LET first == process_field(battle_processors[1], "swap", bm)
        IN  ReplayStep("swap", bm, first,
                       process_field(IndependentCopy(first, battle_processors[2]), "swap", bm))

ReplayNext ==
    \/ ReplayRecordLine
    \/ ReplayFieldEvent
    \/ ReplaySwap

ReplaySpec == ReplayInit /\ [][ReplayNext]_vars

\* ------------------------------------------------- targeting (utilities.py)
\* DexMoveTarget, by the names of its members
MOVETARGET_ADJACENTALLY       == "adjacentAlly"
MOVETARGET_ADJACENTALLYORSELF == "adjacentAllyOrSelf"
MOVETARGET_ANY                == "any"
MOVETARGET_NORMAL             == "normal"
MOVETARGET_ADJACENTFOE        == "adjacentFoe"
TargetedMoveTargets ==
    {MOVETARGET_ADJACENTALLY, MOVETARGET_ADJACENTALLYORSELF, MOVETARGET_ANY,
     MOVETARGET_NORMAL, MOVETARGET_ADJACENTFOE}
UntargetedMoveTargets ==
    {"self", "all", "allAdjacent", "allAdjacentFoes", "allies", "allySide",
     "allyTeam", "foeSide", "randomNormal", "scripted"}
DexMoveTarget == TargetedMoveTargets \cup UntargetedMoveTargets

Abs(n) == IF n < 0 THEN 0 - n ELSE n

\* needs_target: None needs none, the others by need_dict
needs_target(move_target) ==
    IF move_target = None THEN FALSE ELSE move_target \in TargetedMoveTargets

\* the locals of can_target_slot
max_num(gametype) == IF gametype = "doubles" THEN 2 ELSE 3
is_self(source_slot, target_slot)          == source_slot = target_slot
is_same_side(source_slot, target_slot)     == source_slot * target_slot > 0
is_opposite_side(source_slot, target_slot) == source_slot * target_slot < 0
is_adj_ally(source_slot, target_slot) ==
    is_same_side(source_slot, target_slot) /\ Abs(source_slot - target_slot) = 1
is_adj_foe(source_slot, target_slot, gametype) ==
    /\ is_opposite_side(source_slot, target_slot)
    /\ Abs(Abs(source_slot) - max_num(gametype) - 1) = Abs(target_slot)
\* a corner rule that compares the slot numbers without mirroring the source
CornerWithoutMirror(source_slot, target_slot, gametype) ==
    /\ is_opposite_side(source_slot, target_slot)
    /\ Abs(Abs(source_slot) - Abs(target_slot)) = 1
is_corner_foe(source_slot, target_slot, gametype) ==
    /\ is_opposite_side(source_slot, target_slot)
    /\ Abs(Abs(Abs(source_slot) - max_num(gametype) - 1) - Abs(target_slot)) = 1
is_adjacent(source_slot, target_slot, gametype) ==
    is_adj_ally(source_slot, target_slot) \/ is_adj_foe(source_slot, target_slot, gametype)

\* a can_target_slot that forgets which side the target is on
SideBlindTargeting(source_slot, target_slot, move_target, gametype) ==
    needs_target(move_target) /\ ~is_self(source_slot, target_slot)

\* can_target_slot (its final raise is behind needs_target and never reached)
can_target_slot(source_slot, target_slot, move_target, gametype) ==
    IF ~needs_target(move_target) THEN FALSE
    ELSE CASE move_target = MOVETARGET_ADJACENTALLY ->
                is_adj_ally(source_slot, target_slot)
           [] move_target = MOVETARGET_ADJACENTALLYORSELF ->
                is_adj_ally(source_slot, target_slot) \/ is_self(source_slot, target_slot)
           [] move_target = MOVETARGET_ANY ->
                ~is_self(source_slot, target_slot)
           [] move_target = MOVETARGET_NORMAL ->
                \/ is_adjacent(source_slot, target_slot, gametype)
                \/ is_corner_foe(source_slot, target_slot, gametype)
           [] move_target = MOVETARGET_ADJACENTFOE ->
                \/ is_adj_foe(source_slot, target_slot, gametype)
                \/ is_corner_foe(source_slot, target_slot, gametype)

\* get_valid_target_slots: the filled slots that can be targeted, in the
\* order of filled_slots
RECURSIVE get_valid_target_slots(_, _, _, _)
get_valid_target_slots(source_slot, filled_slots, move_target, gametype) ==
    IF filled_slots = <<>> THEN <<>>
    ELSE LET rest == get_valid_target_slots(source_slot, Tail(filled_slots),
                                            move_target, gametype)
         IN  IF can_target_slot(source_slot, Head(filled_slots), move_target, gametype)
             THEN <<Head(filled_slots)>> \o rest
             ELSE rest

\* ------------------------------------------- TargetSpec: the two functions
\* A caller asks one question of can_target_slot or of get_valid_target_slots;
\* lastLine is the question and battle_processors[1] the answer.
FieldSlots(gametype) ==
    {n \in (0 - max_num(gametype))..max_num(gametype) : n # 0}
\* filled_slots as processbm_turn builds it: own slots (negated) in slot
\* order, then the opponent's
RECURSIVE InOrder(_, _)
InOrder(order, chosen) ==
    IF order = <<>> THEN <<>>
    ELSE (IF Head(order) \in chosen THEN <<Head(order)>> ELSE <<>>)
            \o InOrder(Tail(order), chosen)
SlotOrder(gametype) ==
    IF gametype = "doubles" THEN <<0 - 1, 0 - 2, 1, 2>> ELSE <<0 - 1, 0 - 2, 0 - 3, 1, 2, 3>>
FilledLists(gametype) ==
    {InOrder(SlotOrder(gametype), chosen) : chosen \in SUBSET FieldSlots(gametype)}

SlotQuestions ==
    {[ask |-> "slot", gametype |-> g, source_slot |-> src, target_slot |-> tgt,
      move_target |-> mt, filled_slots |-> <<>>] :
        g \in {"doubles", "triples"}, src \in -3..3, tgt \in -3..3,
        mt \in DexMoveTarget \cup {None}}
ListQuestions ==
    {[ask |-> "list", gametype |-> g, source_slot |-> src, target_slot |-> 0,
      move_target |-> mt, filled_slots |-> <<>>] :
        g \in {"doubles", "triples"}, src \in -3..3,
        mt \in TargetedMoveTargets \cup {"self", None}}

TargetInit ==
    /\ cfg \in {c \in FlowConfigs : c.gametype = "singles"}
    /\ pc = "recv"
    /\ block = NoBlock
    /\ surfaced = NoSignal
    /\ logged_in = FALSE
    /\ last_search = NoLine
    /\ pending_challenges = {}
    /\ battle_processors = <<>>
    /\ completed_battles = <<>>
    /\ pending_battle_amt = 0
    /\ active_battle_amt = 0
    /\ outstanding = [search |-> FALSE, playing |-> FALSE]
    /\ sent = <<>>
    /\ lastLine \in {q \in SlotQuestions \cup ListQuestions :
                        /\ q.source_slot \in FieldSlots(q.gametype)
                        /\ q.ask = "slot" => q.target_slot \in FieldSlots(q.gametype)}
    /\ lastAction = NoAct
    /\ raised = None
    /\ nlines = 0

Answered(answer) ==
    /\ battle_processors = <<>>
    /\ battle_processors' = <<answer>>
    /\ UNCHANGED <<cfg, pc, block, surfaced, ctl, completed_battles, sent, lastLine,
                   lastAction, raised, nlines>>

CanTargetSlot ==
    /\ lastLine.ask = "slot"
    /\ Answered(can_target_slot(lastLine.source_slot, lastLine.target_slot,
                                lastLine.move_target, lastLine.gametype))

GetValidTargetSlots ==
    \E filled_slots \in FilledLists(lastLine.gametype) :
        /\ lastLine.ask = "list"
        /\ Answered([filled_slots |-> filled_slots,
                     targettable_slots |->
                        get_valid_target_slots(lastLine.source_slot, filled_slots,
                                               lastLine.move_target, lastLine.gametype)])

TargetNext ==
    \/ CanTargetSlot
    \/ GetValidTargetSlots

TargetSpec == TargetInit /\ [][TargetNext]_vars

\* ------------------------------------- legal choices (processbm_request/turn)
TeamSize        == 5     \* members of the own team in a request
MaxChoiceEvents == 3     \* lines fed to the engine of ChoiceSpec

\* battle/choices.py: the options of one slot.  target_number 0 is None.
MoveOption(move_number, target_type, variant) ==
    [choice |-> "move", move_number |-> move_number, target_number |-> 0,
     target_type |-> target_type, tera |-> variant = "tera", mega |-> variant = "mega",
     dyna |-> variant = "dyna", zmove |-> variant = "zmove", slot |-> 0]
SwitchOption(team_pos) ==
    [choice |-> "switch", move_number |-> 0, target_number |-> 0, target_type |-> None,
     tera |-> FALSE, mega |-> FALSE, dyna |-> FALSE, zmove |-> FALSE, slot |-> team_pos]
\* an entry of the per-slot list: PassChoice() or a list of options
PassEntry          == [pass |-> TRUE, options |-> <<>>]
ListEntry(options) == [pass |-> FALSE, options |-> options]
\* BattleState.battle_choice: None, a TeamChoice or the per-slot list
NoChoice              == [kind |-> "none", team_order |-> <<>>, slots |-> <<>>]
TeamOption(team_order) == [kind |-> "team", team_order |-> team_order, slots |-> <<>>]
SlotChoices(slots)    == [kind |-> "slots", team_order |-> <<>>, slots |-> slots]

\* the snapshot with its choice fields (state.py), and Battle.turn
NewChoiceField(g) ==
    [player_id |-> "p1", opponent_id |-> "p2", gametype |-> g,
     player_team |-> <<>>, opponent_team |-> <<>>,
     player_slots |-> [i \in 1..SlotCount(g) |-> EmptySlot],
     opponent_slots |-> [i \in 1..SlotCount(g) |-> EmptySlot],
     battle_choice |-> NoChoice, player_has_teratyped |-> FALSE, player_has_megad |-> FALSE,
     player_has_zmoved |-> FALSE, player_has_dynamaxed |-> FALSE,
     opponent_has_teratyped |-> FALSE, opponent_has_megad |-> FALSE,
     opponent_has_zmoved |-> FALSE, turn |-> 0]

\* a roster member as processbm_request leaves it
RequestMember(player, bm_poke, e) ==
    [player_id |-> player, species |-> bm_poke.SPECIES,
     base_species |-> clean_forme(bm_poke.SPECIES), nickname |-> bm_poke.IDENTITY,
     level |-> bm_poke.LEVEL, gender |-> bm_poke.GENDER,
     has_item |-> IF bm_poke.ITEM = None THEN "False" ELSE "True",
     slot |-> NoSlot, active |-> bm_poke.ACTIVE, status |-> bm_poke.STATUS,
     team_pos |-> e + 1, is_reviving |-> bm_poke.REVIVING]

\* processbm_request, lines 580-661: the roster loop with every field the
\* enumeration reads
RECURSIVE request_roster(_, _, _, _)
request_roster(team, player, pokemon, e) ==
    IF e = Len(pokemon) THEN [exc |-> None, team |-> team]
    ELSE LET bm_poke == pokemon[e + 1]
         IN  IF Cardinality(DOMAIN team) = e
             THEN LET poke == RequestMember(player, bm_poke, e)
                  IN  request_roster(With(team, to_base_id(poke), poke), player, pokemon, e + 1)
             ELSE LET poke_id == <<player, clean_forme(bm_poke.SPECIES), bm_poke.GENDER,
                                   bm_poke.IDENTITY>>
                  IN  IF poke_id \notin DOMAIN team THEN [exc |-> "KeyError", team |-> team]
                      ELSE request_roster(
                              [team EXCEPT ![poke_id] =
                                  [f \in DOMAIN RequestMember(player, bm_poke, e) |->
                                      IF f \in {"has_item", "active", "status",
                                                "team_pos", "is_reviving"}
                                      THEN RequestMember(player, bm_poke, e)[f]
                                      ELSE team[poke_id][f]]],
                              player, pokemon, e + 1)

\* player_team.values(): the roster in insertion order, which is team_pos
\* order because only the creating branch of the loop above inserts
TeamValues(team) ==
    [i \in 1..Cardinality(DOMAIN team) |->
        team[CHOOSE k \in DOMAIN team : team[k].team_pos = i]]

RECURSIVE SwitchOptionsOf(_, _)
SwitchOptionsOf(values, eligible) ==
    IF values = <<>> THEN <<>>
    ELSE (IF Head(values).team_pos \in eligible THEN <<SwitchOption(Head(values).team_pos)>>
          ELSE <<>>) \o SwitchOptionsOf(Tail(values), eligible)

\* lines 677-682 and 683-687
CanSwitchTo(p) == p.status # STATUS_FNT /\ ~p.active
switch_options(team) ==
    SwitchOptionsOf(TeamValues(team),
                    {team[k].team_pos : k \in {k \in DOMAIN team : CanSwitchTo(team[k])}})
revive_options(team) ==
    SwitchOptionsOf(TeamValues(team),
                    {team[k].team_pos : k \in {k \in DOMAIN team : team[k].status = STATUS_FNT}})

\* lines 689-706: the entries of a forced switch
RECURSIVE forceswitch_choices(_, _, _)
forceswitch_choices(st, bm, i) ==
    IF i = SlotCount(st.gametype) THEN <<>>
    ELSE LET slot_poke == st.player_slots[i + 1]
             entry == IF bm.FORCESWITCH_SLOTS[i + 1]
                      THEN IF slot_poke # EmptySlot /\ st.player_team[slot_poke].is_reviving
                           THEN ListEntry(revive_options(st.player_team))
                           ELSE ListEntry(switch_options(st.player_team))
                      ELSE PassEntry
         IN  <<entry>> \o forceswitch_choices(st, bm, i + 1)

\* lines 725-746: the options of the moves of one slot, from move_num on
HasPP(m_data)  == m_data.CUR_PP # 0
Usable(m_data) == ~(m_data.DISABLED \/ m_data.CUR_PP = 0)
RECURSIVE move_options(_, _, _)
move_options(st, ao, move_num) ==
    IF move_num = Len(ao.MOVES) THEN <<>>
    ELSE LET m_data == ao.MOVES[move_num + 1]
             these ==
                IF ~Usable(m_data) THEN <<>>
                ELSE <<MoveOption(move_num + 1, m_data.TARGET, "plain")>>
                     \o (IF ao.CAN_TERA /\ ~st.player_has_teratyped
                         THEN <<MoveOption(move_num + 1, m_data.TARGET, "tera")>> ELSE <<>>)
                     \o (IF ao.CAN_MEGA /\ ~st.player_has_megad
                         THEN <<MoveOption(move_num + 1, m_data.TARGET, "mega")>> ELSE <<>>)
                     \o (IF m_data.CAN_DYNAMAX /\ ~st.player_has_dynamaxed
                         THEN <<MoveOption(move_num + 1, m_data.DYNAMAX_TARGET, "dyna")>>
                         ELSE <<>>)
                     \o (IF m_data.CAN_ZMOVE /\ ~st.player_has_zmoved
                         THEN <<MoveOption(move_num + 1, m_data.ZMOVE_TARGET, "zmove")>>
                         ELSE <<>>)
         IN  these \o move_options(st, ao, move_num + 1)

\* lines 708-755: the entries of an ACTIVE request
RECURSIVE active_choices(_, _, _)
active_choices(st, bm, i) ==
    IF i = SlotCount(st.gametype) THEN <<>>
    ELSE LET entry ==
                IF Len(bm.ACTIVE_OPTIONS) <= i THEN PassEntry
                ELSE LET ao == bm.ACTIVE_OPTIONS[i + 1]
                     IN  IF ~ao.TRAPPED
                         THEN ListEntry(move_options(st, ao, 0) \o switch_options(st.player_team))
                         ELSE ListEntry(move_options(st, ao, 0))
         IN  <<entry>> \o active_choices(st, bm, i + 1)

\* processbm_request, whole: the assertion on the player, battle_choice set
\* back to None, the roster loop, then the choices by request type
request_choices(st, bm) ==
    IF bm.PLAYER # st.player_id THEN Handled("AssertionError", st)
    ELSE LET st0 == [st EXCEPT !.battle_choice = NoChoice]
             r   == request_roster(st0.player_team, bm.PLAYER, bm.POKEMON, 0)
             st1 == [st0 EXCEPT !.player_team = r.team]
         IN  IF r.exc # None THEN Handled(r.exc, st1)
             ELSE CASE bm.REQUEST_TYPE = "WAIT" -> Handled(None, st1)
                    [] bm.REQUEST_TYPE = "TEAMPREVIEW" ->
                         Handled(None, [st1 EXCEPT !.battle_choice =
                            TeamOption([i \in 1..Cardinality(DOMAIN st1.player_team) |-> i])])
                    [] bm.REQUEST_TYPE = "FORCESWITCH" ->
                         Handled(None, [st1 EXCEPT !.battle_choice =
                            SlotChoices(forceswitch_choices(st1, bm, 0))])
                    [] bm.REQUEST_TYPE = "ACTIVE" ->
                         Handled(None, [st1 EXCEPT !.battle_choice =
                            SlotChoices(active_choices(st1, bm, 0))])

\* process_bm, lines 160-174: the signal of a request that was handled
request_signal(bm) == IF bm.REQUEST_TYPE = "FORCESWITCH" THEN SWITCH ELSE NO_ACTION

\* processbm_turn, lines 794-795: own filled slots negated, then the opponent's
RECURSIVE FilledOf(_, _, _)
FilledOf(slots, i, sign) ==
    IF i > Len(slots) THEN <<>>
    ELSE (IF slots[i] # EmptySlot THEN <<sign * i>> ELSE <<>>) \o FilledOf(slots, i + 1, sign)
filled_slots(st) == FilledOf(st.player_slots, 1, 0 - 1) \o FilledOf(st.opponent_slots, 1, 1)

\* lines 812-818: a targeted copy of a move option; only the move number, the
\* target and the target type are passed on
Targeted(slot_choice, target_slot) ==
    [MoveOption(slot_choice.move_number, slot_choice.target_type, "plain")
        EXCEPT !.target_number = target_slot]
\* an expansion that stops at the first target: what the loop over
\* targettable_list must not be
FirstTargetOnly(slot_choice, targettable_list) ==
    IF targettable_list = <<>> THEN <<>>
    ELSE <<Targeted(slot_choice, Head(targettable_list))>>
RECURSIVE TargetedCopies(_, _)
TargetedCopies(slot_choice, targettable_list) ==
    IF targettable_list = <<>> THEN <<>>
    ELSE <<Targeted(slot_choice, Head(targettable_list))>>
            \o TargetedCopies(slot_choice, Tail(targettable_list))

\* lines 803-821: the options of own slot e + 1 after the turn
RECURSIVE cleaned_slot_options(_, _, _)
cleaned_slot_options(st, e, options) ==
    IF options = <<>> THEN <<>>
    ELSE LET slot_choice == Head(options)
             these ==
                IF slot_choice.choice = "move" /\ needs_target(slot_choice.target_type)
                THEN TargetedCopies(slot_choice,
                        get_valid_target_slots(0 - (e + 1), filled_slots(st),
                                               slot_choice.target_type, st.gametype))
                ELSE <<slot_choice>>
         IN  these \o cleaned_slot_options(st, e, Tail(options))

RECURSIVE cleaned_options(_, _)
cleaned_options(st, e) ==
    IF e = Len(st.battle_choice.slots) THEN <<>>
    ELSE LET entry == st.battle_choice.slots[e + 1]
             cleaned == IF entry.pass \/ st.player_slots[e + 1] = EmptySlot THEN PassEntry
                        ELSE ListEntry(cleaned_slot_options(st, e, entry.options))
         IN  <<cleaned>> \o cleaned_options(st, e + 1)

\* processbm_turn: the turn number, then (outside singles and team preview)
\* the expansion; enumerate(None) is a TypeError
turn_choices(st, number) ==
    LET st1 == [st EXCEPT !.turn = number]
    IN  IF st.gametype = "singles" THEN Handled(None, st1)
        ELSE IF st.battle_choice.kind = "team" THEN Handled(None, st1)
        ELSE IF st.battle_choice.kind = "none" THEN Handled("TypeError", st1)
        ELSE Handled(None, [st1 EXCEPT !.battle_choice = SlotChoices(cleaned_options(st1, 0))])

\* processbm_teampreview: an empty body; process_bm returns TEAM_ORDER for it
processbm_teampreview(st) == Handled(None, st)

\* processbm_terastallize and processbm_mega: the occupant of the slot is
\* looked up, then the side's flag is set (the fields written on the
\* individual itself, is_tera, tera_type, is_mega and possible_items, are
\* read by no handler and are not kept in the roster records here)
SlotOccupant(st, bm, used) ==
    LET slot  == SlotIndex(bm.SLOT)
        side  == SideOf(st, bm)
    IN  IF slot \notin DOMAIN Slots(st, side) THEN Handled("KeyError", st)
        ELSE IF Slots(st, side)[slot] = EmptySlot THEN Handled("AssertionError", st)
        ELSE IF Slots(st, side)[slot] \notin DOMAIN Team(st, side) THEN Handled("KeyError", st)
        ELSE Handled(None, used)
processbm_terastallize(st, bm) ==
    SlotOccupant(st, bm, IF bm.PLAYER = st.player_id
                         THEN [st EXCEPT !.player_has_teratyped = TRUE]
                         ELSE [st EXCEPT !.opponent_has_teratyped = TRUE])
processbm_mega(st, bm) ==
    SlotOccupant(st, bm, IF bm.PLAYER = st.player_id
                         THEN [st EXCEPT !.player_has_megad = TRUE]
                         ELSE [st EXCEPT !.opponent_has_megad = TRUE])
\* processbm_zpower: the flag of the side, without a look at the slot
processbm_zpower(st, bm) ==
    Handled(None, IF bm.PLAYER = st.player_id
                  THEN [st EXCEPT !.player_has_zmoved = TRUE]
                  ELSE [st EXCEPT !.opponent_has_zmoved = TRUE])

\* --------------------------------------------------- the request alphabet
TeamSpecies == <<"charizard", "zoroark", "gengar", "snorlax", "pikachu", "eevee">>
TeamNicknames == <<"Charizard", "Zoroark", "Gengar", "Snorlax", "Pikachu", "Eevee">>

\* the side data: the first `actives` members are out, the members of
\* `fainted` have fainted
SideData(actives, fainted) ==
    [e \in 1..TeamSize |->
        [SPECIES |-> TeamSpecies[e], GENDER |-> "M", LEVEL |-> "50",
         IDENTITY |-> TeamNicknames[e], ACTIVE |-> e <= actives /\ e \notin fainted,
         STATUS |-> IF e \in fainted THEN STATUS_FNT ELSE None, ITEM |-> None,
         REVIVING |-> FALSE]]
FaintedSets == {{}, {1}, {TeamSize}, {1, TeamSize}}

\* one move of the request: a target type with its flags
RequestMove(target, disabled, cur_pp, variant) ==
    [TARGET |-> target, DISABLED |-> disabled, CUR_PP |-> cur_pp,
     CAN_DYNAMAX |-> variant = "dyna", DYNAMAX_TARGET |-> MOVETARGET_ADJACENTFOE,
     CAN_ZMOVE |-> variant = "zmove", ZMOVE_TARGET |-> MOVETARGET_NORMAL]
\* the moves of a slot: normal, self, any, and a last one that is usable,
\* disabled or out of PP
SlotMoves(last, variant) ==
    <<RequestMove(MOVETARGET_NORMAL, FALSE, 10, variant),
      RequestMove("self", FALSE, 5, "plain"),
      RequestMove(MOVETARGET_ANY, FALSE, 1, "plain"),
      RequestMove(MOVETARGET_ADJACENTALLY, last = "disabled",
                  IF last = "nopp" THEN 0 ELSE 3, "plain")>>
ActiveOption(last, variant, trapped) ==
    [MOVES |-> SlotMoves(last, variant), CAN_TERA |-> variant = "tera",
     CAN_MEGA |-> variant = "mega", TRAPPED |-> trapped]
FirstSlotOptions ==
    {ActiveOption(last, "plain", trapped) :
        last \in {"usable", "disabled", "nopp"}, trapped \in BOOLEAN}
    \cup {ActiveOption("usable", variant, FALSE) : variant \in {"tera", "mega", "dyna", "zmove"}}
OtherSlotOption == ActiveOption("usable", "plain", FALSE)

Request(player, type, actives, fainted, options, flags) ==
    [PLAYER |-> player, REQUEST_TYPE |-> type, POKEMON |-> SideData(actives, fainted),
     ACTIVE_OPTIONS |-> options, FORCESWITCH_SLOTS |-> flags]
ActiveRequests(g) ==
    {Request("p1", "ACTIVE", SlotCount(g), fainted,
             [i \in 1..n |-> IF i = 1 THEN first ELSE OtherSlotOption], <<>>) :
        fainted \in FaintedSets, first \in FirstSlotOptions, n \in {1, SlotCount(g)}}
ForceSwitchRequests(g) ==
    {Request("p1", "FORCESWITCH", SlotCount(g), fainted, <<>>,
             [i \in 1..SlotCount(g) |-> i \in flagged]) :
        fainted \in FaintedSets \ {{}}, flagged \in {{1}, {SlotCount(g)}, 1..SlotCount(g)}}
OtherRequests(g) ==
    {Request("p1", "TEAMPREVIEW", 0, {}, <<>>, <<>>),
     Request("p1", "WAIT", SlotCount(g), {}, <<>>, <<>>),
     Request("p2", "WAIT", SlotCount(g), {}, <<>>, <<>>)}
ChoiceRequests(g) == ActiveRequests(g) \cup ForceSwitchRequests(g) \cup OtherRequests(g)

\* the switch and faint lines of the first two team members of either side
ChoicePokemonMessages ==
    {PokemonMessage(p, SlotLetters[i], TeamSpecies[e], TeamNicknames[e]) :
        p \in Players, i \in 1..2, e \in 1..2}

\* ---------------------------------- ChoiceSpec: one engine and its choices
\* One ShowdownProcessor after the gametype line, fed request, switch, faint,
\* teampreview, terastallize, mega, zpower and turn lines in any order until a handler
\* raises or MaxChoiceEvents lines are in.  battle_processors[1] is the
\* snapshot, lastLine the line handled last with the signal process_bm
\* returned for it.
ChoiceInit ==
    /\ cfg \in {c \in FlowConfigs : c.gametype = "singles"}
    /\ pc = "recv"
    /\ block = NoBlock
    /\ surfaced = NoSignal
    /\ logged_in = FALSE
    /\ last_search = NoLine
    /\ pending_challenges = {}
    /\ battle_processors \in {<<NewChoiceField(g)>> : g \in Gametypes}
    /\ completed_battles = <<>>
    /\ pending_battle_amt = 0
    /\ active_battle_amt = 0
    /\ outstanding = [search |-> FALSE, playing |-> FALSE]
    /\ sent = <<>>
    /\ lastLine = NoLine
    /\ lastAction = NoAct
    /\ raised = None
    /\ nlines = 0

ChoiceStep(t, bm, r, signal) ==
    /\ raised = None
    /\ nlines < MaxChoiceEvents /\ nlines' = nlines + 1
    /\ battle_processors' = <<r.state>>
    /\ raised' = r.exc
    /\ lastLine' = [t |-> t, bm |-> bm, signal |-> IF r.exc = None THEN signal ELSE None]
    /\ UNCHANGED <<cfg, pc, block, surfaced, ctl, completed_battles, sent, lastAction>>

ChoiceRequest ==
    \E bm \in ChoiceRequests(Field.gametype) :
        ChoiceStep("request", bm, request_choices(Field, bm), request_signal(bm))
ChoiceTurn ==
    ChoiceStep("turn", Field.turn + 1, turn_choices(Field, Field.turn + 1), MOVE)
ChoiceSwitch ==
    \E bm \in ChoicePokemonMessages :
        ChoiceStep("switch", bm, processbm_switch(Field, bm), NO_ACTION)
ChoiceFaint ==
    \E bm \in ChoicePokemonMessages :
        ChoiceStep("faint", bm, processbm_faint(Field, bm), NO_ACTION)

ChoiceTeampreview ==
    ChoiceStep("teampreview", None, processbm_teampreview(Field), TEAM_ORDER)
ChoiceTerastallize ==
    \E bm \in ChoicePokemonMessages :
        ChoiceStep("terastallize", bm, processbm_terastallize(Field, bm), NO_ACTION)
ChoiceMega ==
    \E bm \in ChoicePokemonMessages :
        ChoiceStep("mega", bm, processbm_mega(Field, bm), NO_ACTION)
ChoiceZpower ==
    \E bm \in ChoicePokemonMessages :
        ChoiceStep("zpower", bm, processbm_zpower(Field, bm), NO_ACTION)

ChoiceNext ==
    \/ ChoiceRequest
    \/ ChoiceTurn
    \/ ChoiceSwitch
    \/ ChoiceFaint
    \/ ChoiceTeampreview
    \/ ChoiceTerastallize
    \/ ChoiceMega
    \/ ChoiceZpower

ChoiceSpec == ChoiceInit /\ [][ChoiceNext]_vars

\* ------------------------------------- TurnSpec: processbm_turn on its own
\* processbm_turn applied to the snapshots it is written for: a doubles or
\* triples battle whose ACTIVE request has been handled, with any of the
\* requested active members entered in the own slot table (as the player
\* branch of processbm_switch writes them, lines 888-899) and any of the
\* opponent's slots filled by processbm_switch.
RECURSIVE EnterOwn(_, _, _)
EnterOwn(st, bm, i) ==
    IF i > SlotCount(st.gametype) THEN {st}
    ELSE LET member == RequestMember(bm.PLAYER, bm.POKEMON[i], i - 1)
             entered == SwitchInto(st, "player", i, to_base_id(member)).state
         IN  EnterOwn(st, bm, i + 1)
                \cup (IF bm.POKEMON[i].ACTIVE THEN EnterOwn(entered, bm, i + 1) ELSE {})
RECURSIVE EnterOpponent(_, _)
EnterOpponent(st, i) ==
    IF i > SlotCount(st.gametype) THEN {st}
    ELSE LET bm == PokemonMessage("p2", SlotLetters[i], TeamSpecies[i], TeamNicknames[i])
         IN  EnterOpponent(st, i + 1) \cup EnterOpponent(processbm_switch(st, bm).state, i + 1)
TurnSnapshots ==
    UNION {UNION {EnterOpponent(own, 1) :
                    own \in EnterOwn(request_choices(NewChoiceField(g), bm).state, bm, 1)} :
             g \in {"doubles", "triples"}, bm \in ActiveRequests("doubles")}
MaxTurns == 2      \* turn lines in a row (TurnSpec)

TurnInit ==
    /\ cfg \in {c \in FlowConfigs : c.gametype = "singles"}
    /\ pc = "recv"
    /\ block = NoBlock
    /\ surfaced = NoSignal
    /\ logged_in = FALSE
    /\ last_search = NoLine
    /\ pending_challenges = {}
    /\ battle_processors \in {<<st>> : st \in TurnSnapshots}
    /\ completed_battles = <<>>
    /\ pending_battle_amt = 0
    /\ active_battle_amt = 0
    /\ outstanding = [search |-> FALSE, playing |-> FALSE]
    /\ sent = <<>>
    /\ lastLine = NoLine
    /\ lastAction = NoAct
    /\ raised = None
    /\ nlines = 0

TurnAdvance ==
    \E number \in {Field.turn + 1} :
        /\ raised = None
        /\ nlines < MaxTurns /\ nlines' = nlines + 1
        /\ battle_processors' = <<turn_choices(Field, number).state>>
        /\ raised' = turn_choices(Field, number).exc
        /\ lastLine' = [t |-> "turn", bm |-> number,
                        signal |-> IF turn_choices(Field, number).exc = None THEN MOVE ELSE None]
        /\ UNCHANGED <<cfg, pc, block, surfaced, ctl, completed_battles, sent, lastAction>>

TurnNext == TurnAdvance

TurnSpec == TurnInit /\ [][TurnNext]_vars

\* ================================================================ claims
Suspended      == pc = "suspended" /\ surfaced.signal # FULL_END
FullEndYielded == surfaced.signal = FULL_END
ChooseSent(fs) == \E i \in 1..Len(fs) : fs[i].cmd = "choose"

\* C1: after a (signal, payload) pair has been surfaced, the only step the
\* controller takes is the caller's resume: that step handles no inbound line,
\* runs process_action on the caller's action, and transmits nothing but what
\* process_action sends for it; only afterwards is another line handled.
C1_Rendezvous ==
    [][/\ pc = "suspended" => (lastLine' = NoLine /\ nlines' = nlines)
       /\ Suspended =>
         /\ lastAction' # NoAct
         /\ \E idx \in SampleIndices(lastAction') :
               sent' = process_action(surfaced.signal, lastAction', surfaced.bid, cfg.gametype,
                                      idx, battle_processors, completed_battles).out]_vars

\* C1 witness: a line was handled and surfaced after an earlier resume
C1_Witness == nlines >= 2 /\ Suspended /\ surfaced.bid # 0

\* C2: at every suspend point, resuming with QuitChoice makes the next
\* surfaced signal FULL_END, with no inbound line handled in between.
C2_QuitForcesFullEnd ==
    [][(Suspended /\ lastAction' = QuitChoice) =>
         /\ pc' = "suspended"
         /\ surfaced'.signal = FULL_END
         /\ lastLine' = NoLine]_vars

\* C3: FULL_END is terminal: once it has been surfaced no other signal is
\* surfaced, no inbound line is handled and no frame is transmitted.
C3_FullEndTerminal ==
    [][FullEndYielded =>
         /\ surfaced' = surfaced
         /\ pc' = "done"
         /\ lastLine' = NoLine
         /\ nlines' = nlines
         /\ sent' = <<>>
         /\ lastAction' = NoAct]_vars

\* C3 witness: the generator has returned after FULL_END
C3_Witness == pc = "done" /\ FullEndYielded

\* C4 as stated: a choose frame is transmitted iff the action has the shape
\* of the signal and, when a list, the length of the slot count of the
\* battle's gametype; every other action yields InvalidChoice.
ShapeAsClaimed(sig, a) ==
    \/ sig = TEAM_ORDER /\ a.kind \in {"team", "default"}
    \/ sig \in {SWITCH, MOVE} /\ a.kind \in {"default", "list"}
BattleSlots(bid) ==
    IF bid \in DOMAIN battle_processors /\ battle_processors[bid].gametype \in Gametypes
      THEN SlotCount(battle_processors[bid].gametype) ELSE 0
DecisionStep ==
    /\ Suspended
    /\ surfaced.signal \in {TEAM_ORDER, SWITCH, MOVE}
    /\ lastAction' # NoAct
    /\ lastAction'.kind \notin {"resign", "quit"}
InvalidChoiceYielded == surfaced'.signal = FULL_END /\ surfaced'.code = INVALID_CHOICE
ListFits(a) ==
    /\ a.kind = "list"
    /\ Len(a.items) = SlotCount(cfg.gametype)
    /\ \A i \in 1..Len(a.items) : a.items[i] # "item"
MayBeSent(sig, a) ==
    \/ sig = TEAM_ORDER /\ a.kind \in {"team", "default"}
    \/ sig \in {SWITCH, MOVE} /\ a.kind = "default"
    \/ sig = MOVE /\ ListFits(a)
    \/ sig = SWITCH /\ ListFits(a) /\ \E i \in 1..Len(a.items) : a.items[i] \in {"switch", "pass"}
MustBeSent(sig, a) ==
    \/ sig = TEAM_ORDER /\ a.kind \in {"team", "default"}
    \/ sig \in {SWITCH, MOVE} /\ a.kind = "default"
    \/ sig = MOVE /\ ListFits(a)
    \/ sig = SWITCH /\ ListFits(a) /\ \A i \in 1..Len(a.items) : a.items[i] \in {"switch", "pass"}
C5_InvalidChoiceBattleScoped ==
    [][(Suspended /\ surfaced.bid # 0 /\ lastAction' # NoAct) =>
         ~(surfaced'.signal = FULL_END /\ surfaced'.code = INVALID_CHOICE)]_vars

\* C6: resuming a battle-scoped suspend point with ResignChoice transmits a
\* forfeit for that battle id, keeps the connection open and changes no other
\* battle's record.
C6_ResignForfeitsBattle ==
    [][(/\ Suspended /\ surfaced.bid # 0
        /\ surfaced.signal \in {TEAM_ORDER, MOVE, SWITCH}
        /\ lastAction' = ResignChoice) =>
         /\ sent' = <<Frame("choose", surfaced.bid, <<"forfeit">>)>>
         /\ pc' = "recv"
         /\ \A b \in DOMAIN battle_processors \ {surfaced.bid} :
               b \in DOMAIN battle_processors' /\ battle_processors'[b] = battle_processors[b]]_vars

\* C7: when the engine fails on a battle line, a termination result with code
\* InvalidChoice or OtherError is surfaced; the exception never leaves the
\* controller.
C7_EngineFailureSurfaced ==
    raised # None =>
        /\ pc = "suspended"
        /\ FullEndYielded
        /\ surfaced.code \in {INVALID_CHOICE, OTHER_ERROR}

\* C8: on a challenge-string event whose login request raises or answers
\* without an assertion, no /trn frame is transmitted, FULL_END with code
\* SetupError is surfaced next, and no later inbound line is handled.
LoginFailed(l) == l.t = "challstr" /\ l.arg # "ok"
C8_SetupErrorFatal ==
    [][/\ LoginFailed(lastLine') =>
            /\ sent' = <<>>
            /\ pc' = "suspended"
            /\ surfaced' = Yield(FULL_END, 0, SETUP_ERROR)
       /\ (FullEndYielded /\ surfaced.code = SETUP_ERROR) =>
            /\ lastLine' = NoLine
            /\ nlines' = nlines
            /\ surfaced' = surfaced]_vars

\* C8 witness: the login answered without an assertion and the generator
\* has since returned
C8_Witness == pc = "done" /\ surfaced = Yield(FULL_END, 0, SETUP_ERROR)

\* C9: FULL_END with code ObjectiveComplete is surfaced only when the number
\* of finalized battles is at least total_battles and no battle is active: no
\* un-finalized engine exists and the most recent search update lists no games.
ObjectiveCompleteYielded == FullEndYielded /\ surfaced.code = OBJECTIVE_COMPLETE
C9_CompleteOnlyWhenIdle ==
    ObjectiveCompleteYielded =>
        /\ Cardinality(DOMAIN completed_battles) >= cfg.total_battles
        /\ battle_processors = <<>>
        /\ active_battle_amt = 0

\* C10: under the challenge objective, with total_battles within the
\* whitelist and any max_concurrent_battles, when every challenge leads to a
\* battle that ends and search updates keep coming, FULL_END with code
\* ObjectiveComplete is eventually surfaced.
C10_EventuallyComplete == <>ObjectiveCompleteYielded

\* C11: handle_updatesearch transmits a search or challenge frame only when,
\* at the call, pending_battle_amt + active_battle_amt is below
\* max_concurrent_battles and fewer than total_battles battles are finalized;
\* right after, the sum is at most max_concurrent_battles.
Initiating(fs) == \E i \in 1..Len(fs) : fs[i].cmd \in {"search", "challenge"}
PendingAtCall ==
    IF lastLine'.t = "updatesearch" /\ cfg.objective = "ladder"
      THEN Len(lastLine'.SEARCHING) ELSE pending_battle_amt
ActiveAtCall ==
    IF lastLine'.t = "updatesearch"
      THEN (IF lastLine'.GAMES_None THEN 0 ELSE Len(lastLine'.GAMES)) ELSE active_battle_amt
C11_AdmissionUnderCeiling ==
    [][Initiating(sent') =>
         /\ lastLine'.t \in {"updatesearch", "updateuser"}
         /\ PendingAtCall + ActiveAtCall < cfg.max_concurrent_battles
         /\ Cardinality(DOMAIN completed_battles) < cfg.total_battles
         /\ pending_battle_amt' = PendingAtCall + 1
         /\ active_battle_amt' = ActiveAtCall
         /\ pending_battle_amt' + active_battle_amt' <= cfg.max_concurrent_battles]_vars

\* C11 witness: a frame was transmitted that filled the last free place
C11_Witness ==
    /\ Initiating(sent)
    /\ active_battle_amt > 0
    /\ pending_battle_amt + active_battle_amt = cfg.max_concurrent_battles

\* C12: under the ladder objective no search for the target format is
\* transmitted while a search transmitted earlier is still outstanding (no
\* updatesearch line has answered it and no battle has started) or while the
\* last updatesearch line lists a game of the target format.
SearchSent(fs) == InSeq(Frame("search", 0, <<target_format>>), fs)
NoBattleYet == battle_processors = <<>> /\ completed_battles = <<>>
C12_NoSecondSearch ==
    [][(cfg.objective = "ladder" /\ SearchSent(sent')) =>
         /\ ~(outstanding.search /\ NoBattleYet /\ lastLine'.t # "updatesearch")
         /\ ~outstanding'.playing]_vars

\* C13 as stated: under the challenge objective at most one challenge is
\* outstanding (sent, its battle not yet finished) at any time, for every
\* max_concurrent_battles.  Battle u is the battle against whitelist user u.
OutstandingChallenges == pending_challenges \ DOMAIN completed_battles
ChallengeTo(fs) == {fs[i].to : i \in {j \in 1..Len(fs) : fs[j].cmd = "challenge"}}
FirstUnchallenged(u) ==
    /\ u \notin pending_challenges
    /\ \E i \in 1..Len(whitelist_users) :
          /\ whitelist_users[i] = u
          /\ \A k \in 1..(i - 1) : whitelist_users[k] \in pending_challenges
C14_AcceptIssuesNothing == cfg.objective = "accept" => ~Initiating(sent)

\* C14 witness: under accept, a search update was handled while logged in,
\* below the ceiling and short of total_battles, and nothing was transmitted
C14_Witness ==
    /\ cfg.objective = "accept"
    /\ logged_in
    /\ lastLine.t = "updatesearch"
    /\ surfaced.signal = NO_ACTION
    /\ pending_battle_amt + active_battle_amt < cfg.max_concurrent_battles
    /\ Cardinality(DOMAIN completed_battles) < cfg.total_battles
    /\ sent = <<>>

\* C15: once GAME_END was surfaced for a battle id and the caller resumed,
\* the record is in completed_battles; from then on it never changes, a line
\* carrying that id surfaces nothing and creates no engine, and no id is in
\* both battle_processors and completed_battles.
C15_CompletedIsFinal ==
    [][/\ (Suspended /\ surfaced.signal = GAME_END) =>
            /\ surfaced.bid \in DOMAIN completed_battles'
            /\ completed_battles'[surfaced.bid] = battle_processors[surfaced.bid]
       /\ \A b \in DOMAIN completed_battles :
            /\ b \in DOMAIN completed_battles'
            /\ completed_battles'[b] = completed_battles[b]
            /\ (lastLine'.scope = "battle" /\ lastLine'.bid = b) =>
                  /\ surfaced' = NoSignal
                  /\ pc' = "recv"
                  /\ sent' = <<>>
       /\ DOMAIN battle_processors' \cap DOMAIN completed_battles' = {}]_vars

\* C15 witness: a line of a finished battle was handled and dropped
C15_Witness ==
    /\ lastLine.scope = "battle"
    /\ lastLine.bid \in DOMAIN completed_battles
    /\ pc = "recv"

\* C16: battles are independent: a line or a submitted action of battle A
\* leaves the record of every other battle unchanged; the engine of an id is
\* created on the first line for that id and every later line of the id is
\* processed on that engine's record.
Touched == IF lastAction' # NoAct THEN surfaced.bid ELSE lastLine'.bid
HandledLine == BattleLine(lastLine'.t, lastLine'.arg)
C16_BattlesIndependent ==
    [][/\ \A b \in DOMAIN battle_processors \ {Touched} :
            /\ b \in DOMAIN battle_processors'
            /\ battle_processors'[b] = battle_processors[b]
       /\ \A b \in DOMAIN completed_battles \ {Touched} :
            /\ b \in DOMAIN completed_battles'
            /\ completed_battles'[b] = completed_battles[b]
       /\ \A b \in DOMAIN battle_processors' \ DOMAIN battle_processors :
            /\ lastLine'.scope = "battle" /\ lastLine'.bid = b
            /\ b \notin DOMAIN completed_battles
            /\ battle_processors'[b] = process_bm(NewBattle, HandledLine).battle
       /\ \A b \in DOMAIN battle_processors :
            (lastLine'.scope = "battle" /\ lastLine'.bid = b) =>
                /\ b \in DOMAIN battle_processors'
                /\ battle_processors'[b] = process_bm(battle_processors[b], HandledLine).battle]_vars

\* C16 witness: with two engines running, an action of one battle was
\* recorded and transmitted
C16_Witness ==
    /\ Cardinality(DOMAIN battle_processors) = 2
    /\ lastAction = TeamChoice
    /\ ChooseSent(sent)

\* The record of battle b, running or finalized (the empty record before
\* its first line).
RecordOf(b) ==
    IF b \in DOMAIN battle_processors THEN battle_processors[b]
    ELSE IF b \in DOMAIN completed_battles THEN completed_battles[b]
    ELSE NewBattle
SeenBattles == DOMAIN battle_processors \cup DOMAIN completed_battles

RecordAfter(b) ==
    IF b \in DOMAIN battle_processors' THEN battle_processors'[b]
    ELSE IF b \in DOMAIN completed_battles' THEN completed_battles'[b]
    ELSE NewBattle
DecisionAccepted(b) ==
    /\ Suspended
    /\ surfaced.bid = b
    /\ lastAction' # NoAct
    /\ ChooseSent(sent')
C19_EarlierSnapshotsFrozen ==
    [][\A b \in SeenBattles :
         /\ Len(RecordAfter(b).battle_states) >= Len(RecordOf(b).battle_states)
         /\ \A k \in 1..(Len(RecordOf(b).battle_states) - 1) :
               RecordAfter(b).battle_states[k] = RecordOf(b).battle_states[k]]_vars

\* C19 witness: after a decision was recorded, a request rewrote the last
\* snapshot and the one before it kept its content
C19_Witness ==
    /\ Len(RecordOf(1).battle_states) = 2
    /\ lastLine.t = "request"
    /\ RecordOf(1).battle_states[1] # RecordOf(1).battle_states[2]

\* a slot table with the keys 1..n of its gametype; one whose occupants are
\* all keys of the roster
SlotTableSized(st, side) == DOMAIN Slots(st, side) = 1..SlotCount(st.gametype)
SlotTableNamesRoster(st, side) ==
    \A k \in DOMAIN Slots(st, side) :
        Slots(st, side)[k] # EmptySlot => Slots(st, side)[k] \in DOMAIN Team(st, side)
\* C20: after the gametype event, each side's slot table has exactly the
\* gametype's slot count of entries, keyed 1..n, and every non-empty entry
\* names a key of that side's roster, whatever switch, drag, detailschange,
\* replace, swap and faint events have been processed.
C20_SlotInvariant ==
    Field.gametype # None =>
        \A side \in {"player", "opponent"} :
            SlotTableSized(Field, side) /\ SlotTableNamesRoster(Field, side)

\* the key under which processbm_poke stored the individual a message names
PokeKey(bm) == to_base_id(BattlePokemon(bm.PLAYER, bm.SPECIES, None, bm.LEVEL, bm.GENDER))
\* a switch or drag that returned and that reveals, for the first time, an
\* opponent individual a poke event had announced
FirstReveal ==
    /\ lastLine'.t \in {"switch", "drag"} /\ raised' = None
    /\ lastLine'.bm.PLAYER = Field.opponent_id
    /\ PokeKey(lastLine'.bm) \in DOMAIN Field.opponent_team
    /\ full_ident(lastLine'.bm) \notin DOMAIN Field.opponent_team

\* C21: when a switch or drag first reveals an opponent individual that a
\* poke event stored under its base key, the base-key entry is removed, the
\* record is reinserted under the full key with its learned fields (level,
\* gender, has_item) unchanged, and the roster keeps one entry per individual.
C21_IdentityPromotion ==
    [][FirstReveal =>
          LET bm   == lastLine'.bm
              was  == Field.opponent_team[PokeKey(bm)]
              team == Field'.opponent_team
          IN  /\ PokeKey(bm) \notin DOMAIN team
              /\ full_ident(bm) \in DOMAIN team
              /\ team[full_ident(bm)].level = was.level
              /\ team[full_ident(bm)].gender = was.gender
              /\ team[full_ident(bm)].has_item = was.has_item
              /\ Cardinality(DOMAIN team) = Cardinality(DOMAIN Field.opponent_team)]_vars

\* a poke event that announces an opponent individual whose base identity is
\* that of an individual already in the roster and still hidden
SecondOfSameBase ==
    /\ lastLine'.t = "poke"
    /\ lastLine'.bm.PLAYER = Field.opponent_id
    /\ PokeKey(lastLine'.bm) \in DOMAIN Field.opponent_team

\* C22: two hidden opponent individuals with an identical base identity are
\* never merged silently into one roster entry: the engine raises, or it
\* keeps an entry for each of them.
C22_NoSilentMerge ==
    [][SecondOfSameBase =>
          \/ raised' # None
          \/ Cardinality(DOMAIN Field'.opponent_team)
                = Cardinality(DOMAIN Field.opponent_team) + 1]_vars

DoublesAnswer(source, candidate, category, answer) ==
    (/\ lastLine.ask = "slot" /\ lastLine.gametype = "doubles"
     /\ lastLine.source_slot = source /\ lastLine.target_slot = candidate
     /\ lastLine.move_target = category /\ battle_processors # <<>>)
        => battle_processors[1] = answer

\* C27 as stated: in doubles, for the attacker at slot -1, candidate +2 is a
\* corner foe and a legal target for category normal; candidate -2 is an
\* adjacent ally, legal for adjacent-ally and illegal for adjacent-foe.
C27_CornerFoeAsClaimed ==
    /\ is_corner_foe(0 - 1, 2, "doubles")
    /\ DoublesAnswer(0 - 1, 2, MOVETARGET_NORMAL, TRUE)
    /\ is_adj_ally(0 - 1, 0 - 2)
    /\ DoublesAnswer(0 - 1, 0 - 2, MOVETARGET_ADJACENTALLY, TRUE)
    /\ DoublesAnswer(0 - 1, 0 - 2, MOVETARGET_ADJACENTFOE, FALSE)

\* C27 (amended): in doubles, for the attacker at slot -1, candidate +2 is the
\* directly opposite foe (not a corner foe; the corner foe is +1) and a legal
\* target for category normal; candidate -2 is an adjacent ally, legal for
\* adjacent-ally and illegal for adjacent-foe.
C27_OppositeFoe ==
    /\ is_adj_foe(0 - 1, 2, "doubles") /\ ~is_corner_foe(0 - 1, 2, "doubles")
    /\ is_corner_foe(0 - 1, 1, "doubles")
    /\ DoublesAnswer(0 - 1, 2, MOVETARGET_NORMAL, TRUE)
    /\ is_adj_ally(0 - 1, 0 - 2)
    /\ DoublesAnswer(0 - 1, 0 - 2, MOVETARGET_ADJACENTALLY, TRUE)
    /\ DoublesAnswer(0 - 1, 0 - 2, MOVETARGET_ADJACENTFOE, FALSE)

\* C27 witness: the attacker at -1 has asked about +2 with category normal in
\* doubles and has its answer
C27_Witness ==
    /\ lastLine.ask = "slot" /\ lastLine.gametype = "doubles"
    /\ lastLine.source_slot = 0 - 1 /\ lastLine.target_slot = 2
    /\ lastLine.move_target = MOVETARGET_NORMAL
    /\ battle_processors = <<TRUE>>

\* what an ACTIVE request says of slot i, read off the message alone
NoVariantOffered(ao) ==
    /\ ~ao.CAN_TERA /\ ~ao.CAN_MEGA
    /\ \A k \in 1..Len(ao.MOVES) : ~ao.MOVES[k].CAN_DYNAMAX /\ ~ao.MOVES[k].CAN_ZMOVE
UsableMoves(ao) ==
    {k \in 1..Len(ao.MOVES) : ao.MOVES[k].CUR_PP > 0 /\ ~ao.MOVES[k].DISABLED}
AliveBench(bm) ==
    {e \in 1..Len(bm.POKEMON) : bm.POKEMON[e].STATUS # STATUS_FNT /\ ~bm.POKEMON[e].ACTIVE}
OptionsAt(i, kind) ==
    {j \in 1..Len(Field.battle_choice.slots[i].options) :
        Field.battle_choice.slots[i].options[j].choice = kind}
ActiveRequestHandled ==
    /\ lastLine # NoLine /\ lastLine.t = "request" /\ raised = None
    /\ lastLine.bm.REQUEST_TYPE = "ACTIVE"

NamesOwnMember(bm) ==
    /\ bm.PLAYER = Field.player_id
    /\ \E k \in DOMAIN Field.player_team :
            /\ Field.player_team[k].species = bm.SPECIES
            /\ Field.player_team[k].nickname = bm.IDENTITY
OwnSwitchInStep ==
    /\ lastLine'.t = "switch" /\ lastLine'.bm.SLOT = "a" /\ NamesOwnMember(lastLine'.bm)
OwnFaintStep ==
    /\ lastLine'.t = "faint" /\ lastLine'.bm.SLOT = "a"
    /\ lastLine'.bm.PLAYER = Field.player_id
    /\ Field.player_slots[1] # EmptySlot
ForcedSwitchStep ==
    /\ lastLine'.t = "request" /\ lastLine'.bm.REQUEST_TYPE = "FORCESWITCH"
    /\ lastLine'.bm.PLAYER = Field.player_id
    /\ \A i \in 1..Len(lastLine'.bm.FORCESWITCH_SLOTS) : lastLine'.bm.FORCESWITCH_SLOTS[i] <=> i = 1
    /\ Field.player_team # <<>>
ForcedSwitchAnswer ==
    LET bm    == lastLine'.bm
        slots == Field'.battle_choice.slots
    IN  /\ lastLine'.signal = SWITCH
        /\ Field'.battle_choice.kind = "slots"
        /\ Len(slots) = SlotCount(Field.gametype)
        /\ ~slots[1].pass
        /\ {slots[1].options[j].slot : j \in 1..Len(slots[1].options)} = AliveBench(bm)
        /\ \A j \in 1..Len(slots[1].options) : slots[1].options[j].choice = "switch"
        /\ Len(slots[1].options) = Cardinality(AliveBench(bm))
        /\ \A i \in 2..Len(slots) : slots[i].pass

\* C25: the faint-then-forced-switch scenario runs as described.  The
\* switch-in that puts a team member in own slot 1 is handled and fills the
\* slot; the faint event for that occupant is handled and clears the slot
\* (status fainted, inactive, slot pointer null); the forced-switch request
\* that follows, flagging only slot 1, returns Switch with a slot-1 entry that
\* lists exactly the non-fainted inactive team members as switch options and
\* a pass placeholder for every other slot.
C25_FaintThenForcedSwitch ==
    [][ /\ OwnSwitchInStep =>
            raised' = None /\ Field'.player_slots[1] # EmptySlot
        /\ OwnFaintStep =>
            /\ raised' = None /\ Field'.player_slots[1] = EmptySlot
            /\ Field'.player_team[Field.player_slots[1]].status = STATUS_FNT
            /\ ~Field'.player_team[Field.player_slots[1]].active
            /\ Field'.player_team[Field.player_slots[1]].slot = NoSlot
        /\ ForcedSwitchStep => raised' = None /\ ForcedSwitchAnswer
      ]_vars

\* A switch or drag line for slot s of a side whose table has that slot; an
\* own-side line names a member a request has put in the roster.
SwitchOrDragStep ==
    /\ lastLine'.t \in {"switch", "drag"}
    /\ SlotIndex(lastLine'.bm.SLOT) \in DOMAIN Slots(Field, SideOf(Field, lastLine'.bm))
    /\ lastLine'.bm.PLAYER = Field.player_id =>
            \E k \in DOMAIN Field.player_team :
                /\ Field.player_team[k].species = lastLine'.bm.SPECIES
                /\ Field.player_team[k].nickname = lastLine'.bm.IDENTITY
\* A swap line between two occupied slots holding two different individuals.
SwapStep ==
    LET slots == Slots(Field, SideOf(Field, lastLine'.bm))
        a     == SlotIndex(lastLine'.bm.SLOT)
        b     == lastLine'.bm.POSITION + 1
    IN  /\ lastLine'.t = "swap"
        /\ a \in DOMAIN slots /\ b \in DOMAIN slots
        /\ slots[a] # EmptySlot /\ slots[b] # EmptySlot /\ slots[a] # slots[b]
OtherSlotsKept(side, touched) ==
    /\ \A i \in DOMAIN Slots(Field, side) \ touched : Slots(Field', side)[i] = Slots(Field, side)[i]
    /\ LET other == IF side = "player" THEN "opponent" ELSE "player"
       IN  Slots(Field', other) = Slots(Field, other)
SwitchedIn ==
    LET bm   == lastLine'.bm
        side == SideOf(Field, bm)
        s    == SlotIndex(bm.SLOT)
        prev == Slots(Field, side)[s]
        inc  == Slots(Field', side)[s]
    IN  /\ raised' = None
        /\ inc = full_ident(bm) /\ inc \in DOMAIN Team(Field', side)
        /\ Team(Field', side)[inc].slot = s /\ Team(Field', side)[inc].active
        /\ (prev # EmptySlot /\ prev # inc) =>
                /\ Team(Field', side)[prev].slot = NoSlot
                /\ ~Team(Field', side)[prev].active
        /\ OtherSlotsKept(side, {s})
Swapped ==
    LET bm    == lastLine'.bm
        side  == SideOf(Field, bm)
        a     == SlotIndex(bm.SLOT)
        b     == bm.POSITION + 1
        slots == Slots(Field, side)
    IN  /\ raised' = None
        /\ Slots(Field', side)[a] = slots[b] /\ Slots(Field', side)[b] = slots[a]
        /\ Team(Field', side)[slots[a]].slot = b /\ Team(Field', side)[slots[b]].slot = a
        /\ OtherSlotsKept(side, {a, b})

\* the same for the lines of the opponent's side alone
OpponentSlotsUpdatedExactly ==
    [][ /\ (SwitchOrDragStep /\ lastLine'.bm.PLAYER # Field.player_id) => SwitchedIn
        /\ (SwapStep /\ lastLine'.bm.PLAYER # Field.player_id) => Swapped ]_vars

\* C30: switch, drag and swap update exactly the slots involved.  After a
\* switch or drag line into slot s the previous occupant of s has a null
\* slot pointer and is inactive, the incoming individual has slot pointer s
\* and is active, entry s names it, and every other entry of both tables is
\* unchanged; after a swap line the two slots have exchanged occupants and
\* the two individuals their slot pointers.
C30_SlotsUpdatedExactly ==
    [][ /\ SwitchOrDragStep => SwitchedIn
        /\ SwapStep => Swapped ]_vars

\* a step that handles, for the running battle, a line of the unknown kind or
\* of a kind without a branch in process_bm
UnknownLineStep ==
    /\ lastLine'.scope = "battle" /\ lastLine'.bid = 1
    /\ lastLine'.t \in {"unknown", "unhandled"}
    /\ 1 \notin DOMAIN completed_battles

\* C28: a line of the unknown kind, or of a kind without a handler, leaves
\* the battle record (its snapshots, recorded actions, gametype and victory
\* flag) unchanged; the engine returns NO_ACTION for it and raises nothing,
\* so that NO_ACTION is what the connector surfaces once the battle has a
\* snapshot.
C28_UnknownIsNoOp ==
    [][UnknownLineStep =>
          /\ process_bm(RecordOf(1), HandledLine) = Outcome(None, NO_ACTION, RecordOf(1))
          /\ 1 \in DOMAIN battle_processors' /\ battle_processors'[1] = RecordOf(1)
          /\ RecordOf(1).battle_states # <<>> =>
                raised' = None /\ surfaced' = Yield(NO_ACTION, 1, None)]_vars

\* C28 witness: an unknown line was handled for a battle that has snapshots
\* and a recorded action, and NO_ACTION was surfaced for it
C28_Witness ==
    /\ lastLine.scope = "battle" /\ lastLine.t \in {"unknown", "unhandled"}
    /\ 1 \in DOMAIN battle_processors
    /\ Len(battle_processors[1].battle_states) >= 2
    /\ battle_processors[1].battle_actions >= 1
    /\ surfaced = Yield(NO_ACTION, 1, None)
    /\ raised = None

\* the caller answers a suspend point that asks for a decision
AnswerStep ==
    /\ pc = "suspended" /\ lastAction' # NoAct
    /\ surfaced.signal \in {TEAM_ORDER, SWITCH, MOVE}
\* what the claim calls rejected: an object that is no choice, a choice of
\* the wrong shape for the signal, a list of the wrong length, a list with
\* an entry that cannot be serialized
RejectedAsClaimed(sig, a) ==
    \/ a.kind \in {"junk", "none"}
    \/ sig = TEAM_ORDER /\ a.kind = "list"
    \/ sig \in {SWITCH, MOVE} /\ a.kind = "team"
    \/ sig \in {SWITCH, MOVE} /\ a.kind = "list" /\ Len(a.items) # SlotCount(cfg.gametype)
    \/ a.kind = "list" /\ \E i \in 1..Len(a.items) : a.items[i] = "item"
\* a decision of the right shape for the signal
WellShaped(sig, a) ==
    \/ a.kind = "default"
    \/ sig = TEAM_ORDER /\ a.kind = "team"
    \/ /\ sig \in {SWITCH, MOVE} /\ a.kind = "list" /\ Len(a.items) = SlotCount(cfg.gametype)
       /\ \A i \in 1..Len(a.items) :
            a.items[i] \in (IF sig = SWITCH THEN {"switch", "pass"} ELSE {"move", "switch", "pass"})
NothingRecordedOrSent ==
    /\ sent' = <<>>
    /\ battle_processors' = battle_processors
    /\ completed_battles' = completed_battles
RecordedThenSent ==
    LET bid == surfaced.bid
    IN  /\ sent' = <<Frame("choose", bid, ToShowdown(lastAction'))>>
        /\ DOMAIN battle_processors' = DOMAIN battle_processors
        /\ battle_processors'[bid].battle_actions = battle_processors[bid].battle_actions + 1
        /\ Len(battle_processors'[bid].battle_states) = Len(battle_processors[bid].battle_states) + 1
        /\ \A b \in DOMAIN battle_processors \ {bid} : battle_processors'[b] = battle_processors[b]
        /\ completed_battles' = completed_battles

\* C29: validation precedes recording and transmission.  Answering a suspend
\* point either records and transmits nothing, or records the action (one
\* more action, one more snapshot) and transmits exactly one frame
\* "<battleid>|/choose <payload>" for the battle of the suspend point; a
\* rejected action (no choice, wrong shape, wrong list length, an entry that
\* cannot be serialized) does the first and a well-shaped one the second.
C29_ValidationFirst ==
    [][AnswerStep =>
          /\ NothingRecordedOrSent \/ RecordedThenSent
          /\ RejectedAsClaimed(surfaced.signal, lastAction') => NothingRecordedOrSent
          /\ WellShaped(surfaced.signal, lastAction') => RecordedThenSent]_vars

\* C29 witness: a per-slot list for both slots of a doubles battle was
\* accepted, recorded and transmitted
C29_Witness ==
    /\ lastAction.kind = "list" /\ Len(lastAction.items) = 2
    /\ Len(sent) = 1 /\ sent[1].cmd = "choose" /\ sent[1].payload = ToShowdown(lastAction)
    /\ sent[1].to \in DOMAIN battle_processors
    /\ battle_processors[sent[1].to].battle_actions = 1

\* the options of own slot s before and after a turn step, by position
Pending(s)  == Field.battle_choice.slots[s].options
Expanded(s) == Field'.battle_choice.slots[s].options
NeedsExpansion(o) == o.choice = "move" /\ needs_target(o.target_type)
\* the slots the targeting function returns for a pending choice of slot s
TargetsOf(s, o) ==
    LET list == get_valid_target_slots(0 - s, filled_slots(Field), o.target_type, Field.gametype)
    IN  {list[i] : i \in 1..Len(list)}
RECURSIVE Kept(_)
Kept(options) ==
    IF options = <<>> THEN <<>>
    ELSE (IF NeedsExpansion(Head(options)) THEN <<>> ELSE <<Head(options)>>)
            \o Kept(Tail(options))
FilledNow ==
    {0 - i : i \in {i \in DOMAIN Field.player_slots : Field.player_slots[i] # EmptySlot}}
        \cup {i \in DOMAIN Field.opponent_slots : Field.opponent_slots[i] # EmptySlot}
TurnStepOn(s) ==
    /\ lastLine'.t = "turn"
    /\ Field.battle_choice.kind = "slots"
    /\ s \in DOMAIN Field.battle_choice.slots
    /\ ~Field.battle_choice.slots[s].pass
    /\ Field.player_slots[s] # EmptySlot

ReplaceStep ==
    /\ lastLine'.t = "replace" /\ raised' = None
    /\ Slots(Field, SideOf(Field, lastLine'.bm))[SlotIndex(lastLine'.bm.SLOT)]
          # full_ident(lastLine'.bm)

\* C31: after a replace event for slot s, the individual previously shown in
\* s is inactive with no slot pointer, the revealed individual is active with
\* slot pointer s, and for every roster member p of that side p's slot
\* pointer is s exactly when entry s of the slot table names p.
C31_ReplaceRepoints ==
    [][ReplaceStep =>
          LET bm   == lastLine'.bm
              side == SideOf(Field, bm)
              s    == SlotIndex(bm.SLOT)
              old  == Slots(Field, side)[s]
              full == full_ident(bm)
              team == Team(Field', side)
          IN  /\ old \in DOMAIN team /\ ~team[old].active /\ team[old].slot = NoSlot
              /\ full \in DOMAIN team /\ team[full].active /\ team[full].slot = s
              /\ \A p \in DOMAIN team :
                    (team[p].slot = s) <=> (Slots(Field', side)[s] = p)]_vars

\* a faint line given to processbm_faint, and the other side of a side
FaintStep == lastLine'.t = "faint"
OtherSide(side) == IF side = "player" THEN "opponent" ELSE "player"

\* C32: a faint event for slot s sets the occupant's status to fainted, its
\* active flag to false and its slot pointer to null and empties entry s of
\* that side's slot table, leaving every other slot entry and every other
\* roster member of both sides unchanged; a faint event for an empty slot
\* raises.
C32_FaintEffect ==
    [][FaintStep =>
          LET bm    == lastLine'.bm
              side  == SideOf(Field, bm)
              s     == SlotIndex(bm.SLOT)
              slots == Slots(Field, side)
              team  == Team(Field, side)
          IN  /\ (s \in DOMAIN slots /\ slots[s] = EmptySlot) => raised' # None
              /\ (s \in DOMAIN slots /\ slots[s] # EmptySlot /\ slots[s] \in DOMAIN team) =>
                    LET occ == slots[s]
                    IN  /\ raised' = None
                        /\ Team(Field', side) =
                              [team EXCEPT ![occ].status = STATUS_FNT,
                                           ![occ].active = FALSE,
                                           ![occ].slot = NoSlot]
                        /\ Slots(Field', side) = [slots EXCEPT ![s] = EmptySlot]
                        /\ Team(Field', OtherSide(side)) = Team(Field, OtherSide(side))
                        /\ Slots(Field', OtherSide(side)) = Slots(Field, OtherSide(side))]_vars

\* C32 witness: a faint line emptied an occupied slot: the slot is empty, a
\* roster member of that side is fainted, inactive and without a slot, and
\* another member of the same side is on the field untouched
C32_Witness ==
    /\ lastLine.t = "faint" /\ raised = None
    /\ LET side == SideOf(Field, lastLine.bm)
           team == Team(Field, side)
       IN  /\ Slots(Field, side)[SlotIndex(lastLine.bm.SLOT)] = EmptySlot
           /\ \E p \in DOMAIN team :
                 team[p].status = STATUS_FNT /\ ~team[p].active /\ team[p].slot = NoSlot
           /\ \E q \in DOMAIN team : team[q].active /\ team[q].slot # NoSlot

\* the used flag of the own side for a kind of one-time resource, by the line
\* that uses it, and the variant flag of a move option of that kind
UsedFlag(st, t) ==
    CASE t = "terastallize" -> st.player_has_teratyped
      [] t = "mega"         -> st.player_has_megad
      [] t = "zpower"       -> st.player_has_zmoved
IsVariant(o, t) ==
    CASE t = "terastallize" -> o.tera
      [] t = "mega"         -> o.mega
      [] t = "zpower"       -> o.zmove
ResourceLines == {"terastallize", "mega", "zpower"}
\* a resource line of the own side that names a member of the requested team
\* in a slot of the gametype
OwnResourceStep ==
    /\ lastLine'.t \in ResourceLines
    /\ lastLine'.bm.PLAYER = Field.player_id
    /\ SlotIndex(lastLine'.bm.SLOT) \in DOMAIN Field.player_slots
    /\ \E k \in DOMAIN Field.player_team :
          Field.player_team[k].nickname = lastLine'.bm.IDENTITY
\* an ACTIVE request that was handled
ActiveRequestStep ==
    lastLine'.t = "request" /\ lastLine'.bm.REQUEST_TYPE = "ACTIVE" /\ raised' = None
OffersVariant(st, t) ==
    \E i \in DOMAIN st.battle_choice.slots :
        \E j \in DOMAIN st.battle_choice.slots[i].options :
            IsVariant(st.battle_choice.slots[i].options[j], t)
UsedStaysUsed ==
    \A t \in ResourceLines : UsedFlag(Field, t) => UsedFlag(Field', t)
UsedIsNotOffered ==
    ActiveRequestStep => \A t \in ResourceLines : UsedFlag(Field, t) => ~OffersVariant(Field', t)

\* C33: once a terastallize, mega or zpower event of the own side has been
\* processed the matching used flag is true in the snapshot, it stays true
\* ever after, and no later ACTIVE request enumerates a move variant of that
\* kind even when the request marks the variant as available.
C33_ResourcesStayUsed ==
    [][/\ OwnResourceStep => UsedFlag(Field', lastLine'.t)
       /\ UsedStaysUsed
       /\ UsedIsNotOffered]_vars

\* the reference rule, in the terms of the specification: max is the slot
\* count of a side, a slot is directly opposite its mirror max + 1 - |source|
RefSameSide(source, candidate)   == (source < 0) = (candidate < 0)
RefAdjacentAlly(source, candidate) ==
    RefSameSide(source, candidate) /\ Abs(source - candidate) = 1
RefOpposite(source, candidate, max) ==
    ~RefSameSide(source, candidate) /\ Abs(candidate) = max + 1 - Abs(source)
RefCornerFoe(source, candidate, max) ==
    ~RefSameSide(source, candidate) /\ Abs((max + 1 - Abs(source)) - Abs(candidate)) = 1
ReferenceRule(source, candidate, category, max) ==
    CASE category = MOVETARGET_ADJACENTALLY -> RefAdjacentAlly(source, candidate)
      [] category = MOVETARGET_ADJACENTALLYORSELF ->
            RefAdjacentAlly(source, candidate) \/ source = candidate
      [] category = MOVETARGET_ANY -> source # candidate
      [] category = MOVETARGET_NORMAL ->
            \/ RefAdjacentAlly(source, candidate)
            \/ RefOpposite(source, candidate, max)
            \/ RefCornerFoe(source, candidate, max)
      [] category = MOVETARGET_ADJACENTFOE ->
            RefOpposite(source, candidate, max) \/ RefCornerFoe(source, candidate, max)
      [] OTHER -> FALSE
SideMax(gametype) == IF gametype = "doubles" THEN 2 ELSE 3
SeqRange(q) == {q[i] : i \in DOMAIN q}

\* C34: in doubles and triples, for every source slot, candidate slot and
\* target category, can_target_slot equals the reference rule, and
\* get_valid_target_slots returns exactly the filled slots that satisfy it,
\* in the order of the filled slots.
C34_TargetingRule ==
    battle_processors # <<>> =>
        LET q   == lastLine
            ans == battle_processors[1]
        IN  IF q.ask = "slot"
            THEN ans = ReferenceRule(q.source_slot, q.target_slot, q.move_target,
                                     SideMax(q.gametype))
            ELSE /\ ans.targettable_slots =
                       SelectSeq(ans.filled_slots,
                                 LAMBDA c : ReferenceRule(q.source_slot, c, q.move_target,
                                                          SideMax(q.gametype)))
                 /\ SeqRange(ans.targettable_slots) \subseteq SeqRange(ans.filled_slots)

\* C34 witness: in triples with all six slots filled, the move of category
\* normal used from slot -1 may go to the adjacent ally, the corner foe and
\* the directly opposite foe, and to no other slot
C34_Witness ==
    /\ battle_processors # <<>>
    /\ lastLine.ask = "list" /\ lastLine.gametype = "triples"
    /\ lastLine.source_slot = 0 - 1 /\ lastLine.move_target = MOVETARGET_NORMAL
    /\ battle_processors[1].filled_slots = <<0 - 1, 0 - 2, 0 - 3, 1, 2, 3>>
    /\ battle_processors[1].targettable_slots = <<0 - 2, 2, 3>>

\* a request of the own side that names, member for member, the team an
\* earlier request stored
NamesStoredTeam(pokemon) ==
    /\ Len(pokemon) = Cardinality(DOMAIN Field.player_team)
    /\ \A i \in 1..Len(pokemon) :
          \E k \in DOMAIN Field.player_team :
              /\ Field.player_team[k].species = pokemon[i].SPECIES
              /\ Field.player_team[k].nickname = pokemon[i].IDENTITY
LaterRequestStep ==
    /\ lastLine'.t = "request"
    /\ lastLine'.bm.PLAYER = Field.player_id
    /\ DOMAIN Field.player_team # {}
    /\ NamesStoredTeam(lastLine'.bm.POKEMON)
\* a switch or drag line that brings a member of the stored team into a slot
\* of the gametype
OwnEntryStep ==
    /\ lastLine'.t \in {"switch", "drag"}
    /\ NamesOwnMember(lastLine'.bm)
    /\ SlotIndex(lastLine'.bm.SLOT) \in DOMAIN Field.player_slots

\* C35: the roster key under which a request first stores an own-side
\* individual is the key every later request and every own-side switch or
\* drag looks it up by: a second request for the same team, or a switch-in
\* of a team member, finds the existing entry, raises nothing and adds no
\* roster entry.
C35_OwnKeysConsistent ==
    [][(LaterRequestStep \/ OwnEntryStep) =>
          /\ raised' = None
          /\ DOMAIN Field'.player_team = DOMAIN Field.player_team]_vars

\* a pending choice as the request enumerated it: a move that needs a target
\* and has none yet
Untargeted(o) == NeedsExpansion(o) /\ o.target_number = 0

ShapeFor(signal, st) ==
    CASE signal = TEAM_ORDER -> st.battle_choice.kind = "team"
      [] signal \in {MOVE, SWITCH} ->
            /\ st.battle_choice.kind = "slots"
            /\ Len(st.battle_choice.slots) = SlotCount(st.gametype)
      [] OTHER -> TRUE

\* C37: whenever TeamOrder, Move or Switch is returned for a battle that has
\* had a request, the snapshot's legal-choice set is there and has the shape
\* of the signal (a team order for TeamOrder, a list with one entry per slot
\* of the gametype for Move and Switch), in whatever order requests of any
\* type, teampreview lines and turn lines arrive.
C37_ChoicesShaped ==
    (lastLine.t \in {"request", "teampreview", "turn"} /\ raised = None
        /\ DOMAIN Field.player_team # {})
    => ShapeFor(lastLine.signal, Field)

\* a turn line handled right after another turn line
SecondTurnStep ==
    lastLine.t = "turn" /\ raised = None /\ lastLine'.t = "turn" /\ raised' = None

GeneralHandled(t) == CanReceive /\ lastLine'.t = t
\* the parts of C39
NoFrameBeforeLogin == Initiating(sent') => logged_in'
StoredBeforeLogin ==
    (GeneralHandled("updatesearch") /\ ~logged_in) =>
        (last_search' = lastLine' /\ ~Initiating(sent'))
ActedOnAtLogin ==
    (GeneralHandled("updateuser") /\ lastLine'.arg = "True" /\ ~logged_in
        /\ last_search # NoLine) =>
        sent' = handle_updatesearch(last_search, cfg, Cardinality(DOMAIN completed_battles),
                                    pending_challenges, pending_battle_amt,
                                    active_battle_amt).out
\* logged_in with a stored search update: the update was stored before login
\* and has been acted on when login was confirmed
StoredActedOn == logged_in /\ last_search # NoLine
ActedOnOnce ==
    (GeneralHandled("updateuser") /\ StoredActedOn) => ~Initiating(sent')

\* C39: no search or challenge frame is transmitted before an updateuser
\* line has marked the session as logged in; a search update that arrives
\* before login is stored and acted on when login is confirmed, and it is
\* acted on at most once.
C39_SearchAfterLoginOnce ==
    [][NoFrameBeforeLogin /\ StoredBeforeLogin /\ ActedOnAtLogin /\ ActedOnOnce]_vars

\* a slot event that its handler rejected with an exception
RejectedStep ==
    /\ lastLine'.t \in {"switch", "drag", "detailschange", "replace", "swap", "faint"}
    /\ raised' # None

\* C40: when a handler rejects an event with a fatal error (an empty or
\* unindexed slot, an identity missing from the roster), the snapshot is left
\* exactly as it was before the event: the failed handler has changed no slot
\* entry and no roster entry.
C40_RejectedLeavesSnapshot ==
    [][RejectedStep => Field' = Field]_vars

====
